---- MODULE Spec2Model ----
(***************************************************************************)
(* Retrieval core of the basketball assistant: ShoeRetriever               *)
(* (services/rag/shoe_retrieval.py) and RuleRetriever                      *)
(* (services/rag/rule_retrieval.py) on top of the lazily initialised       *)
(* ChromaDBManager (services/rag/chroma_db.py).                            *)
(*                                                                         *)
(* A Python str is a sequence of one-character strings, an Optional value  *)
(* is a sequence of length at most one (None is <<>>), a dict is a record  *)
(* whose DOMAIN holds exactly the keys that are present.                   *)
(*                                                                         *)
(* Spec: one behaviour is one call of one operation of the retrieval core  *)
(* or one request to an endpoint (api/v1/endpoints, services/agents): Init *)
(* draws the request and the manager's _initialized flag, the operation's  *)
(* action draws what the Document Store and the LLM answer and runs the    *)
(* whole method.                                                           *)
(*                                                                         *)
(* ManagerSpec: the threads of the process call the query_* and add_*      *)
(* methods of the one ChromaDBManager, interleaved statement by statement  *)
(* through _ensure_initialized.                                            *)
(***************************************************************************)
EXTENDS Integers, Sequences, FiniteSets, TLC

VARIABLES
    initialized,   \* ChromaDBManager._initialized
    request,       \* the operation called and its arguments
    pc,            \* "call" before the operation ran, "done" after it
    storeLog,      \* the Document Store calls the operation issued, in order
    storeAnswers,  \* what the store answered to each of them, in order
    outcome,       \* what the operation gave its caller: a value or an error
    synthesis,     \* the prompts the synthesis step built, in order
    client,              \* ChromaDBManager.client
    collection,          \* ChromaDBManager.collection (drills)
    shoes_collection,    \* ChromaDBManager.shoes_collection
    players_collection,  \* ChromaDBManager.players_collection
    init_lock,     \* ChromaDBManager._init_lock: the thread that holds it
    threads,       \* per thread: the manager method it runs and where it is
    stored,        \* per collection: the ids, vectors, texts and metadata
    completed      \* how often the initialization body ran to its end

callVars == <<request, pc, storeLog, storeAnswers, outcome, synthesis>>
handles == <<client, collection, shoes_collection, players_collection>>
threadVars == <<init_lock, threads, stored, completed>>
vars == <<initialized, callVars, handles, threadVars>>

(***************************************************************************)
(* Bounds of the model.                                                    *)
(***************************************************************************)
MaxPool == 3       \* longest ranked list the store answers with
MaxBudget == 2     \* budget ceilings range over 0..MaxBudget
MaxShoes == 2      \* n_shoes ranges over 0..MaxShoes
MaxPieces == 3     \* a situation text is made of at most MaxPieces pieces

(***************************************************************************)
(* Python values.                                                          *)
(***************************************************************************)
None == <<>>
Some(v) == <<v>>

\* dict.get(key, default)
Get(m, k, d) == IF k \in DOMAIN m THEN m[k] ELSE d

\* Characters str.strip() removes.
Whitespace == {" "}

RECURSIVE lstrip(_)
lstrip(s) ==
    IF s # <<>> /\ Head(s) \in Whitespace THEN lstrip(Tail(s)) ELSE s

RECURSIVE rstrip(_)
rstrip(s) ==
    IF s # <<>> /\ s[Len(s)] \in Whitespace
    THEN rstrip(SubSeq(s, 1, Len(s) - 1))
    ELSE s

\* str.strip()
strip(s) == rstrip(lstrip(s))

\* str.lower() on one character of the model's alphabet.
lowerChar(c) ==
    CASE c = "A" -> "a"
      [] c = "C" -> "c"
      [] c = "D" -> "d"
      [] c = "E" -> "e"
      [] c = "F" -> "f"
      [] c = "G" -> "g"
      [] c = "K" -> "k"
      [] c = "L" -> "l"
      [] c = "N" -> "n"
      [] c = "O" -> "o"
      [] c = "R" -> "r"
      [] c = "T" -> "t"
      [] c = "U" -> "u"
      [] c = "W" -> "w"
      [] c = "X" -> "x"
      [] OTHER -> c

\* str.lower()
lower(s) == [i \in DOMAIN s |-> lowerChar(s[i])]

\* needle in hay, for two str
contains(hay, needle) ==
    \E i \in 0..(Len(hay) - Len(needle)) :
        SubSeq(hay, i + 1, i + Len(needle)) = needle

\* str.split(sep) for a one-character separator: the pieces between the
\* separators, empty pieces included, so "".split(",") is [""].
RECURSIVE split(_, _)
split(s, sep) ==
    IF \A i \in DOMAIN s : s[i] # sep
    THEN <<s>>
    ELSE LET k == CHOOSE i \in DOMAIN s :
                      s[i] = sep /\ \A j \in 1..(i - 1) : s[j] # sep
         IN  <<SubSeq(s, 1, k - 1)>> \o split(SubSeq(s, k + 1, Len(s)), sep)

\* " ".join(parts)
RECURSIVE join(_)
join(parts) ==
    IF parts = <<>> THEN <<>>
    ELSE IF Len(parts) = 1 THEN parts[1]
    ELSE parts[1] \o <<" ">> \o join(Tail(parts))

\* A metadata value: an int or a str.
PyInt(n) == [t |-> "int", v |-> n, s |-> <<>>]
PyStr(s) == [t |-> "str", v |-> 0, s |-> s]

DigitValue(c) == CASE c = "0" -> 0 [] c = "1" -> 1 [] c = "2" -> 2 [] c = "3" -> 3
                   [] c = "4" -> 4 [] c = "5" -> 5 [] c = "6" -> 6 [] c = "7" -> 7
                   [] c = "8" -> 8 [] c = "9" -> 9 [] OTHER -> -1

RECURSIVE DecimalValue(_)
DecimalValue(s) ==
    IF s = <<>> THEN 0
    ELSE 10 * DecimalValue(SubSeq(s, 1, Len(s) - 1)) + DigitValue(s[Len(s)])

\* int(x): [ok |-> TRUE, v |-> n], or ok = FALSE where Python raises
\* ValueError (a str that is no decimal numeral) or TypeError.
int(x) ==
    CASE x.t = "int" -> [ok |-> TRUE, v |-> x.v]
      [] x.t = "str" ->
            LET d == strip(x.s)
            IN  IF d # <<>> /\ \A i \in DOMAIN d : DigitValue(d[i]) >= 0
                THEN [ok |-> TRUE, v |-> DecimalValue(d)]
                ELSE [ok |-> FALSE, v |-> 0]
      [] OTHER -> [ok |-> FALSE, v |-> 0]

(***************************************************************************)
(* What an operation gives its caller.                                     *)
(***************************************************************************)
Return(v) == [kind |-> "return", value |-> v]
Raise(e) == [kind |-> "raise", value |-> e]

\* langchain Document(page_content=..., metadata=...)
Document(page_content, metadata) ==
    [page_content |-> page_content, metadata |-> metadata]

(***************************************************************************)
(* The Document Store.  A query on a collection either fails or answers    *)
(* with a ranked list of distinct records of the collection, no longer     *)
(* than the limit it was asked for.  The catalogs below are the records    *)
(* the bounded store holds; how it ranks them is the store's choice.       *)
(***************************************************************************)
\* Position keywords of the shoe tags, one character per syllable.
TagGuard == <<"ga", "deu">>
TagLowCut == <<"ro", "u", "keot">>
TagForward == <<"po", "wo", "deu">>
TagMidCut == <<"mi", "deu", "keot">>
TagCenter == <<"sen", "teo">>
TagHighCut == <<"ha", "i", "keot">>
TagBigMan == <<"big", "maen">>

\* Shoe metadata as add_shoes writes it (the keys the retrieval core and the
\* agents read); a store that was filled by other means may lack a key.
ShoeCatalog ==
    << [page_content |-> "shoe1",
        metadata |-> [doc_type |-> "shoe", brand |-> <<"U">>,
                      model_name |-> <<"C", "1">>, price_krw |-> PyInt(1),
                      tags |-> TagGuard \o <<",">> \o TagLowCut]],
       [page_content |-> "shoe2",
        metadata |-> [doc_type |-> "shoe", brand |-> <<"N">>,
                      model_name |-> <<"K">>, price_krw |-> PyInt(3),
                      tags |-> <<" ">> \o TagCenter \o <<" ", ",">> \o TagBigMan]],
       [page_content |-> "shoe3",
        metadata |-> [doc_type |-> "shoe", brand |-> <<"U">>,
                      model_name |-> <<"c", "2">>, price_krw |-> PyStr(<<"2">>),
                      tags |-> <<"x", ",", " ">> \o TagMidCut \o <<" ">>]],
       [page_content |-> "shoe4",
        metadata |-> [doc_type |-> "shoe", brand |-> <<"N">>,
                      model_name |-> <<"L">>, price_krw |-> PyStr(<<"x">>),
                      tags |-> TagGuard \o TagCenter]],
       [page_content |-> "shoe5",
        metadata |-> [doc_type |-> "shoe", brand |-> <<"A">>,
                      model_name |-> <<"D">>]],
       [page_content |-> "shoe6",
        metadata |-> [doc_type |-> "shoe", brand |-> <<"A">>,
                      model_name |-> <<"C", "x">>, price_krw |-> PyStr(<<" ", "1">>),
                      tags |-> <<>>]] >>

\* Player metadata as add_players writes it; the collection is persistent,
\* and player2 is a record add_players did not write: it has no position.
PlayerCatalog ==
    << [page_content |-> "player1",
        metadata |-> [doc_type |-> "player", name |-> <<"c">>,
                      position |-> <<"P", "G">>,
                      signature_shoes |-> <<" ", "C", " ", ",", "k">>]],
       [page_content |-> "player2",
        metadata |-> [doc_type |-> "player", name |-> <<"d">>,
                      signature_shoes |-> <<>>]] >>

\* The ranked lists of at most MaxPool distinct records of a catalog.
Rankings(catalog) ==
    UNION { { [i \in 1..m |-> catalog[f[i]]] :
                f \in { g \in [1..m -> DOMAIN catalog] :
                          \A a, b \in 1..m : a # b => g[a] # g[b] } } :
            m \in 0..MaxPool }

ShoeRankings == Rankings(ShoeCatalog)
PlayerRankings == Rankings(PlayerCatalog)

\* A store call as the log records it.
StoreCall(fn, n_results, where) ==
    [fn |-> fn, n_results |-> n_results, where |-> where]

\* What a query_* method of the manager can do when called with limit
\* n_results: _ensure_initialized raises (only while not yet initialised),
\* the collection's query raises, it answers nothing, or it answers with
\* a ranked list.
QueryAnswers(rankings, n_results, init) ==
    (IF init THEN {} ELSE {[kind |-> "init_error", documents |-> <<>>]})
    \cup {[kind |-> "error", documents |-> <<>>],
          [kind |-> "none", documents |-> <<>>]}
    \cup {[kind |-> "ok", documents |-> r] :
            r \in {x \in rankings : Len(x) <= n_results}}

query_shoes(n_results, init) == QueryAnswers(ShoeRankings, n_results, init)
query_players(n_results, init) == QueryAnswers(PlayerRankings, n_results, init)

\* The query raised: in _ensure_initialized or in collection.query.
Failed(answer) == answer.kind \in {"init_error", "error"}

\* _initialized after a query_* call that found it at init.
ensure_initialized(init, answer) == init \/ answer.kind # "init_error"

\* A handle of a manager that is or is not initialised.
Handle(name, init) == IF init THEN Some(name) ELSE None

CollectionNames == {"drills", "shoes", "players"}

\* A collection without records.
EmptyCollection ==
    [ids |-> <<>>, embeddings |-> <<>>, documents |-> <<>>, metadatas |-> <<>>]

(***************************************************************************)
(* What one run of an operation did: what it gave its caller, the store    *)
(* calls it issued with the store's answers, and _initialized afterwards.  *)
(* An operation is the set of the runs the store's choices allow.          *)
(***************************************************************************)
Run(out, log, answers, init) ==
    [outcome |-> out, log |-> log, answers |-> answers, initialized |-> init]

\* Python truth value of an Optional[int] and of an Optional[str].
truthy_int(x) == x # None /\ x[1] # 0
truthy_str(x) == x # None /\ x[1] # <<>>

\* The elements of a list.
Range(seq) == {seq[i] : i \in DOMAIN seq}

\* seq[:n]
slice_to(seq, n) ==
    IF n >= 0
    THEN SubSeq(seq, 1, IF n < Len(seq) THEN n ELSE Len(seq))
    ELSE SubSeq(seq, 1, IF Len(seq) + n > 0 THEN Len(seq) + n ELSE 0)

(***************************************************************************)
(* ShoeRetriever                                                           *)
(***************************************************************************)
\* The guard without its whitespace test: only the empty list returns early.
no_sensory_keywords_empty_only(sensory_keywords) == sensory_keywords = <<>>

\* The early guards of search_by_sensory_preferences: no keyword, only
\* blank keywords, or an empty query text after joining.
no_sensory_keywords(sensory_keywords) ==
    \/ sensory_keywords = <<>>
    \/ ~ \E i \in DOMAIN sensory_keywords : strip(sensory_keywords[i]) # <<>>
    \/ strip(join(sensory_keywords)) = <<>>

\* A budget filter whose except clause lets the candidate through.
passes_budget_fail_open(budget_max_krw, metadata) ==
    IF truthy_int(budget_max_krw)
    THEN LET price == int(Get(metadata, "price_krw", PyInt(0)))
         IN  ~ price.ok \/ ~ (price.v > budget_max_krw[1])
    ELSE TRUE

\* Budget filter: FALSE where the loop continues to the next candidate.
passes_budget(budget_max_krw, metadata) ==
    IF truthy_int(budget_max_krw)
    THEN LET price == int(Get(metadata, "price_krw", PyInt(0)))
         IN  price.ok /\ ~ (price.v > budget_max_krw[1])
    ELSE TRUE

PositionGuard == <<"g", "u", "a", "r", "d">>
PositionForward == <<"f", "o", "r", "w", "a", "r", "d">>
PositionCenter == <<"c", "e", "n", "t", "e", "r">>

\* A position filter that compares the tags without stripping them and
\* drops every candidate of an unknown position.
passes_position_strict(position, metadata) ==
    IF truthy_str(position)
    THEN LET tags == split(Get(metadata, "tags", <<>>), ",")
             any_tag(keywords) == \E i \in DOMAIN tags : tags[i] \in keywords
         IN  \/ lower(position[1]) = PositionGuard
                /\ any_tag({TagGuard, TagLowCut})
             \/ lower(position[1]) = PositionForward
                /\ any_tag({TagForward, TagMidCut})
             \/ lower(position[1]) = PositionCenter
                /\ any_tag({TagCenter, TagHighCut, TagBigMan})
    ELSE TRUE

\* Position filter: FALSE where the loop continues to the next candidate.
passes_position(position, metadata) ==
    IF truthy_str(position)
    THEN LET tags == split(Get(metadata, "tags", <<>>), ",")
             any_tag(keywords) ==
                 \E i \in DOMAIN tags : strip(tags[i]) \in keywords
             known ==
                 IF lower(position[1]) = PositionGuard
                    /\ any_tag({TagGuard, TagLowCut})
                 THEN TRUE
                 ELSE IF lower(position[1]) = PositionForward
                         /\ any_tag({TagForward, TagMidCut})
                 THEN TRUE
                 ELSE IF lower(position[1]) = PositionCenter
                         /\ any_tag({TagCenter, TagHighCut, TagBigMan})
                 THEN TRUE
                 ELSE FALSE
             position_match ==
                 IF ~ known /\ lower(position[1]) \notin
                        {PositionGuard, PositionForward, PositionCenter}
                 THEN TRUE
                 ELSE known
         IN  position_match
    ELSE TRUE

\* A post-filtering loop that inserts each survivor at the front.
RECURSIVE post_filter_prepending(_, _, _)
post_filter_prepending(documents, budget_max_krw, position) ==
    IF documents = <<>> THEN <<>>
    ELSE LET metadata == Head(documents).metadata
             rest == post_filter_prepending(Tail(documents), budget_max_krw,
                                            position)
         IN  IF ~ passes_budget(budget_max_krw, metadata) THEN rest
             ELSE IF ~ passes_position(position, metadata) THEN rest
             ELSE rest \o <<Document(Head(documents).page_content, metadata)>>

\* The post-filtering loop over the store's candidates.
RECURSIVE post_filter(_, _, _)
post_filter(documents, budget_max_krw, position) ==
    IF documents = <<>> THEN <<>>
    ELSE LET metadata == Head(documents).metadata
             rest == post_filter(Tail(documents), budget_max_krw, position)
         IN  IF ~ passes_budget(budget_max_krw, metadata) THEN rest
             ELSE IF ~ passes_position(position, metadata) THEN rest
             ELSE <<Document(Head(documents).page_content, metadata)>> \o rest

\* An except clause that swallows the failure into an empty result.
shoe_search_failed_swallowed(answer) == Return(<<>>)

\* The except clause of search_by_sensory_preferences.
shoe_search_failed(answer) == Raise("Failed to retrieve shoes from database")

search_by_sensory_preferences(sensory_keywords, budget_max_krw, position, n_results, init) ==
    IF no_sensory_keywords(sensory_keywords)
    THEN {Run(Return(<<>>), <<>>, <<>>, init)}
    ELSE { Run(IF Failed(answer) THEN shoe_search_failed(answer)
               ELSE IF answer.kind = "none" THEN Return(<<>>)
               ELSE Return(post_filter(answer.documents, budget_max_krw,
                                       position)),
               <<StoreCall("query_shoes", n_results, None)>>,
               <<answer>>,
               ensure_initialized(init, answer)) :
           answer \in query_shoes(n_results, init) }

\* The early guard of search_by_player_archetype.
no_player_name(player_name) ==
    player_name = None \/ player_name[1] = <<>> \/ strip(player_name[1]) = <<>>

\* The except clause of search_by_player_archetype.
player_search_failed(answer) ==
    Raise("Failed to retrieve player archetypes from database")

RECURSIVE as_documents(_)
as_documents(documents) ==
    IF documents = <<>> THEN <<>>
    ELSE <<Document(Head(documents).page_content, Head(documents).metadata)>>
         \o as_documents(Tail(documents))

\* search_by_player_archetype that asks the store a second time when the
\* first query raised.
search_by_player_archetype_retrying(player_name, n_results, init) ==
    IF no_player_name(player_name)
    THEN {Run(Return(<<>>), <<>>, <<>>, init)}
    ELSE UNION {
           IF Failed(first)
           THEN { Run(IF Failed(answer) THEN player_search_failed(answer)
                      ELSE IF answer.kind = "none" THEN Return(<<>>)
                      ELSE Return(as_documents(answer.documents)),
                      <<StoreCall("query_players", n_results, None),
                        StoreCall("query_players", n_results, None)>>,
                      <<first, answer>>,
                      ensure_initialized(init, answer)) :
                  answer \in query_players(n_results, init) }
           ELSE { Run(IF first.kind = "none" THEN Return(<<>>)
                      ELSE Return(as_documents(first.documents)),
                      <<StoreCall("query_players", n_results, None)>>,
                      <<first>>,
                      ensure_initialized(init, first)) } :
           first \in query_players(n_results, init) }

search_by_player_archetype(player_name, n_results, init) ==
    IF no_player_name(player_name)
    THEN {Run(Return(<<>>), <<>>, <<>>, init)}
    ELSE { Run(IF Failed(answer) THEN player_search_failed(answer)
               ELSE IF answer.kind = "none" THEN Return(<<>>)
               ELSE Return(as_documents(answer.documents)),
               <<StoreCall("query_players", n_results, None)>>,
               <<answer>>,
               ensure_initialized(init, answer)) :
           answer \in query_players(n_results, init) }

\* The cleaned signature model names: stripped, blank ones left out.
RECURSIVE clean_signature_models(_)
clean_signature_models(signature_models) ==
    IF signature_models = <<>> THEN <<>>
    ELSE (IF strip(Head(signature_models)) # <<>>
          THEN <<strip(Head(signature_models))>> ELSE <<>>)
         \o clean_signature_models(Tail(signature_models))

\* A signature test that compares without lower-casing.
is_signature_case_sensitive(shoe, cleaned) ==
    LET model_name == Get(shoe.metadata, "model_name", <<>>)
        brand == Get(shoe.metadata, "brand", <<>>)
    IN  \E i \in DOMAIN cleaned :
            contains(brand \o <<" ">> \o model_name, cleaned[i])

\* is_signature of the loop body of _boost_signature_shoes, for the
\* cleaned names.
is_signature(shoe, cleaned) ==
    LET model_name == Get(shoe.metadata, "model_name", <<>>)
        brand == Get(shoe.metadata, "brand", <<>>)
    IN  \E i \in DOMAIN cleaned :
            contains(lower(brand \o <<" ">> \o model_name), lower(cleaned[i]))

\* The loop of _boost_signature_shoes: <<signature_shoes, other_shoes>>.
RECURSIVE partition_shoes(_, _, _, _)
partition_shoes(shoes, cleaned, signature_shoes, other_shoes) ==
    IF shoes = <<>> THEN <<signature_shoes, other_shoes>>
    ELSE IF is_signature(Head(shoes), cleaned)
         THEN partition_shoes(Tail(shoes), cleaned,
                              Append(signature_shoes, Head(shoes)), other_shoes)
         ELSE partition_shoes(Tail(shoes), cleaned,
                              signature_shoes, Append(other_shoes, Head(shoes)))

reversed(seq) == [i \in DOMAIN seq |-> seq[Len(seq) + 1 - i]]

\* A boost that puts the signature shoes first in reverse order.
boost_reversing_signature_shoes(shoes, signature_models) ==
    IF signature_models = <<>> THEN shoes
    ELSE LET parts == partition_shoes(
                          shoes, clean_signature_models(signature_models),
                          <<>>, <<>>)
         IN  reversed(parts[1]) \o parts[2]

_boost_signature_shoes(shoes, signature_models) ==
    IF signature_models = <<>> THEN shoes
    ELSE LET parts == partition_shoes(
                          shoes, clean_signature_models(signature_models),
                          <<>>, <<>>)
         IN  parts[1] \o parts[2]

\* n_results of the shoe search and of the player search in
\* cross_analysis_search.
ShoePoolSize == 15
PlayerLimit == 3

\* A step 3 that forgets the limit.
limit_shoes_unlimited(shoes, n_shoes) == shoes

\* Step 3 of cross_analysis_search: result["shoes"] = shoes[:n_shoes].
limit_shoes(shoes, n_shoes) == slice_to(shoes, n_shoes)

\* Step 2 of cross_analysis_search, once the player search returned.
boost_for_players(shoes, players) ==
    IF players # <<>>
    THEN _boost_signature_shoes(
             shoes,
             split(Get(players[1].metadata, "signature_shoes", <<>>), ","))
    ELSE shoes

\* Steps 2 and 3 in the wrong order: the limit first, the boost after.
limit_then_boost(shoes, players, n_shoes) ==
    boost_for_players(limit_shoes(shoes, n_shoes), players)

\* Steps 2 and 3 of cross_analysis_search on the shoes of step 1: the
\* boost, then the limit.
boost_then_limit(shoes, players, n_shoes) ==
    limit_shoes(boost_for_players(shoes, players), n_shoes)

\* cross_analysis_search that asks the store for three shoes per shoe it is
\* to return.
cross_analysis_search_scaled_pool(sensory_keywords, player_archetype, budget_max_krw, position, n_shoes, init) ==
    UNION {
        IF s.outcome.kind = "raise" THEN {s}
        ELSE IF ~ truthy_str(player_archetype)
        THEN {Run(Return([shoes |-> limit_shoes(s.outcome.value, n_shoes),
                          players |-> <<>>]),
                  s.log, s.answers, s.initialized)}
        ELSE { IF p.outcome.kind = "raise"
               THEN Run(p.outcome, s.log \o p.log, s.answers \o p.answers,
                        p.initialized)
               ELSE Run(Return([shoes |-> boost_then_limit(s.outcome.value,
                                                            p.outcome.value,
                                                            n_shoes),
                                players |-> p.outcome.value]),
                        s.log \o p.log, s.answers \o p.answers, p.initialized) :
               p \in search_by_player_archetype(player_archetype, PlayerLimit,
                                                s.initialized) } :
        s \in search_by_sensory_preferences(sensory_keywords, budget_max_krw,
                                            position, 3 * n_shoes, init) }

\* cross_analysis_search that goes on with the shoes alone when the player
\* search raises.
cross_analysis_search_shoes_only(sensory_keywords, player_archetype, budget_max_krw, position, n_shoes, init) ==
    UNION {
        IF s.outcome.kind = "raise" THEN {s}
        ELSE IF ~ truthy_str(player_archetype)
        THEN {Run(Return([shoes |-> limit_shoes(s.outcome.value, n_shoes),
                          players |-> <<>>]),
                  s.log, s.answers, s.initialized)}
        ELSE { IF p.outcome.kind = "raise"
               THEN Run(Return([shoes |-> limit_shoes(s.outcome.value, n_shoes),
                                players |-> <<>>]),
                        s.log \o p.log, s.answers \o p.answers, p.initialized)
               ELSE Run(Return([shoes |-> boost_then_limit(s.outcome.value,
                                                            p.outcome.value,
                                                            n_shoes),
                                players |-> p.outcome.value]),
                        s.log \o p.log, s.answers \o p.answers, p.initialized) :
               p \in search_by_player_archetype(player_archetype, PlayerLimit,
                                                s.initialized) } :
        s \in search_by_sensory_preferences(sensory_keywords, budget_max_krw,
                                            position, ShoePoolSize, init) }

cross_analysis_search(sensory_keywords, player_archetype, budget_max_krw, position, n_shoes, init) ==
    UNION {
        IF s.outcome.kind = "raise" THEN {s}
        ELSE IF ~ truthy_str(player_archetype)
        THEN {Run(Return([shoes |-> limit_shoes(s.outcome.value, n_shoes),
                          players |-> <<>>]),
                  s.log, s.answers, s.initialized)}
        ELSE { IF p.outcome.kind = "raise"
               THEN Run(p.outcome, s.log \o p.log, s.answers \o p.answers,
                        p.initialized)
               ELSE Run(Return([shoes |-> boost_then_limit(s.outcome.value,
                                                            p.outcome.value,
                                                            n_shoes),
                                players |-> p.outcome.value]),
                        s.log \o p.log, s.answers \o p.answers, p.initialized) :
               p \in search_by_player_archetype(player_archetype, PlayerLimit,
                                                s.initialized) } :
        s \in search_by_sensory_preferences(sensory_keywords, budget_max_krw,
                                            position, ShoePoolSize, init) }

(***************************************************************************)
(* RuleRetriever                                                           *)
(***************************************************************************)
upperChar(c) ==
    CASE c = "a" -> "A"
      [] c = "b" -> "B"
      [] c = "f" -> "F"
      [] c = "i" -> "I"
      [] c = "n" -> "N"
      [] OTHER -> c

\* str.upper()
upper(s) == [i \in DOMAIN s |-> upperChar(s[i])]

FIBA == <<"F", "I", "B", "A">>
NBA == <<"N", "B", "A">>
Foul == <<"f", "o", "u", "l">>
Violation == <<"v", "i", "o">>

RuleCatalog ==
    << [page_content |-> "rule1",
        metadata |-> [doc_type |-> "rule", rule_type |-> FIBA]],
       [page_content |-> "rule2",
        metadata |-> [doc_type |-> "rule", rule_type |-> NBA]],
       [page_content |-> "rule3",
        metadata |-> [doc_type |-> "rule", rule_type |-> FIBA]] >>

GlossaryCatalog ==
    << [page_content |-> "term1",
        metadata |-> [doc_type |-> "glossary", category |-> Foul]],
       [page_content |-> "term2",
        metadata |-> [doc_type |-> "glossary", category |-> Violation]] >>

RuleRankings == Rankings(RuleCatalog)
GlossaryRankings == Rankings(GlossaryCatalog)

\* The store's equality predicate: where is None or a one-key mapping.
Where(key, value) == Some([key |-> key, value |-> value])

satisfies(metadata, where) ==
    where = None
    \/ (where[1].key \in DOMAIN metadata /\ metadata[where[1].key] = where[1].value)

\* The ranked lists whose records all satisfy the predicate.
Filtered(rankings, where) ==
    {r \in rankings : \A i \in DOMAIN r : satisfies(r[i].metadata, where)}

query_rules(n_results, where, init) ==
    QueryAnswers(Filtered(RuleRankings, where), n_results, init)

query_glossary(n_results, where, init) ==
    QueryAnswers(Filtered(GlossaryRankings, where), n_results, init)

\* The early guard of search_by_situation and of search_glossary_terms.
no_text(text) == text = None \/ text[1] = <<>> \/ strip(text[1]) = <<>>

\* where_filter of search_by_situation, with rule_type passed as given.
rule_type_filter_as_given(rule_type) ==
    IF truthy_str(rule_type) THEN Where("rule_type", rule_type[1]) ELSE None

\* where_filter of search_by_situation.
rule_type_filter(rule_type) ==
    IF truthy_str(rule_type)
    THEN Where("rule_type", upper(rule_type[1]))
    ELSE None

\* where_filter of search_glossary_terms.
category_filter(category) ==
    IF truthy_str(category) THEN Where("category", category[1]) ELSE None

\* The except clause of search_by_situation.
rule_search_failed(answer) == Raise("Failed to retrieve rules from database")

\* The except clause of search_glossary_terms.
glossary_search_failed(answer) ==
    Raise("Failed to retrieve glossary terms from database")

search_by_situation(situation, rule_type, n_results, init) ==
    IF no_text(situation)
    THEN {Run(Return(<<>>), <<>>, <<>>, init)}
    ELSE { Run(IF Failed(answer) THEN rule_search_failed(answer)
               ELSE IF answer.kind = "none" THEN Return(<<>>)
               ELSE Return(as_documents(answer.documents)),
               <<StoreCall("query_rules", n_results,
                           rule_type_filter(rule_type))>>,
               <<answer>>,
               ensure_initialized(init, answer)) :
           answer \in query_rules(n_results, rule_type_filter(rule_type), init) }

search_glossary_terms(query, category, n_results, init) ==
    IF no_text(query)
    THEN {Run(Return(<<>>), <<>>, <<>>, init)}
    ELSE { Run(IF Failed(answer) THEN glossary_search_failed(answer)
               ELSE IF answer.kind = "none" THEN Return(<<>>)
               ELSE Return(as_documents(answer.documents)),
               <<StoreCall("query_glossary", n_results,
                           category_filter(category))>>,
               <<answer>>,
               ensure_initialized(init, answer)) :
           answer \in query_glossary(n_results, category_filter(category), init) }

\* hybrid_search with the rule limit handed to both searches.
hybrid_search_one_limit(situation, rule_type, n_rules, n_glossary, init) ==
    UNION {
        IF r.outcome.kind = "raise" THEN {r}
        ELSE { IF g.outcome.kind = "raise"
               THEN Run(g.outcome, r.log \o g.log, r.answers \o g.answers,
                        g.initialized)
               ELSE Run(Return([rules |-> r.outcome.value,
                                glossary |-> g.outcome.value]),
                        r.log \o g.log, r.answers \o g.answers, g.initialized) :
               g \in search_glossary_terms(situation, None, n_rules,
                                           r.initialized) } :
        r \in search_by_situation(situation, rule_type, n_rules, init) }

hybrid_search(situation, rule_type, n_rules, n_glossary, init) ==
    UNION {
        IF r.outcome.kind = "raise" THEN {r}
        ELSE { IF g.outcome.kind = "raise"
               THEN Run(g.outcome, r.log \o g.log, r.answers \o g.answers,
                        g.initialized)
               ELSE Run(Return([rules |-> r.outcome.value,
                                glossary |-> g.outcome.value]),
                        r.log \o g.log, r.answers \o g.answers, g.initialized) :
               g \in search_glossary_terms(situation, None, n_glossary,
                                           r.initialized) } :
        r \in search_by_situation(situation, rule_type, n_rules, init) }

(***************************************************************************)
(* The request paths: endpoint, agent graph, synthesis.                    *)
(***************************************************************************)
\* An HTTP response, by its status code.
Response(status) == [kind |-> "response", value |-> status]

\* What the chat completion can give: a JSON object the response schema
\* accepts, content the schema rejects, or an openai.APIError.
LLMReplies == {"valid", "invalid", "api_error"}

\* One run of a request: a Run, with the context and its partition that
\* the synthesis step put into its prompt (empty when it never ran).
AgentRun(out, log, answers, init, prompts) ==
    [outcome |-> out, log |-> log, answers |-> answers, initialized |-> init,
     synthesis |-> prompts]

\* The tail of every generate_* node and of its endpoint: a validated
\* final_response becomes 200, a ValueError of the node becomes 500.
synthesis_response(reply) ==
    IF reply = "valid" THEN Response(200) ELSE Response(500)

RECURSIVE select(_, _)
\* [doc for doc in docs if keep[doc]], keep being the set of the kept ones.
select(docs, keep) ==
    IF docs = <<>> THEN <<>>
    ELSE (IF Head(docs) \in keep THEN <<Head(docs)>> ELSE <<>>)
         \o select(Tail(docs), keep)

\* A retrieve node's result: the context and the store calls behind it.
Retrieved(context, log, answers, init) ==
    [context |-> context, log |-> log, answers |-> answers,
     initialized |-> init]

(***************************************************************************)
(* Gear advisor: POST /api/v1/gear/recommend                               *)
(***************************************************************************)
\* GearAdvisorRequest without min_length on sensory_preferences.
GearAdvisorRequest_any_length(body) ==
    /\ body.sensory_preferences # None
    /\ (body.budget_max_krw = None \/ body.budget_max_krw[1] > 0)

\* Validation of the request body against GearAdvisorRequest.
GearAdvisorRequest(body) ==
    /\ body.sensory_preferences # None
    /\ Len(body.sensory_preferences[1]) >= 1
    /\ (body.budget_max_krw = None \/ body.budget_max_krw[1] > 0)

\* analyze_preferences raises.
analyze_preferences_raises(user_info) ==
    user_info.sensory_preferences = None
    \/ user_info.sensory_preferences[1] = <<>>

\* Shoes of the context: at most this many.
ShoeContextLimit == 5

\* The player half of retrieve_shoes_and_players: a failed query is logged
\* and the node goes on without players.
retrieved_players(answer) ==
    IF Failed(answer) \/ answer.kind = "none" THEN <<>>
    ELSE as_documents(answer.documents)

\* The shoe half: budget post-filter, the first ShoeContextLimit kept.
retrieved_shoes(answer, budget_max_krw) ==
    slice_to(select(as_documents(answer.documents),
                    {d \in Range(as_documents(answer.documents)) :
                       passes_budget(budget_max_krw, d.metadata)}),
             ShoeContextLimit)

\* What the node returns once the shoe query answered or raised.
shoes_and_players(players, answer, budget_max_krw) ==
    IF Failed(answer) THEN <<>>
    ELSE IF answer.kind = "none" THEN players
    ELSE players \o retrieved_shoes(answer, budget_max_krw)

retrieve_shoes_and_players(user_info, init) ==
    IF truthy_str(user_info.player_archetype)
    THEN UNION {
           { Retrieved(shoes_and_players(retrieved_players(p), s,
                                         user_info.budget_max_krw),
                       <<StoreCall("query_players", PlayerLimit, None),
                         StoreCall("query_shoes", ShoePoolSize, None)>>,
                       <<p, s>>,
                       ensure_initialized(ensure_initialized(init, p), s)) :
             s \in query_shoes(ShoePoolSize, ensure_initialized(init, p)) } :
           p \in query_players(PlayerLimit, init) }
    ELSE { Retrieved(shoes_and_players(<<>>, s, user_info.budget_max_krw),
                     <<StoreCall("query_shoes", ShoePoolSize, None)>>,
                     <<s>>, ensure_initialized(init, s)) :
           s \in query_shoes(ShoePoolSize, init) }

\* The partition of the context at the head of generate_recommendations.
generate_recommendations(context) ==
    [agent |-> "gear",
     context |-> context,
     parts |-> [shoes |-> select(context,
                                 {d \in Range(context) :
                                    "brand" \in DOMAIN d.metadata}),
                players |-> select(context,
                                   {d \in Range(context) :
                                      /\ "position" \in DOMAIN d.metadata
                                      /\ "brand" \notin DOMAIN d.metadata})]]

recommend_gear(body, init) ==
    IF ~ GearAdvisorRequest(body)
    THEN {AgentRun(Response(422), <<>>, <<>>, init, <<>>)}
    ELSE IF analyze_preferences_raises(body)
    THEN {AgentRun(Response(500), <<>>, <<>>, init, <<>>)}
    ELSE { AgentRun(synthesis_response(reply), r.log, r.answers, r.initialized,
                    <<generate_recommendations(r.context)>>) :
           r \in retrieve_shoes_and_players(body, init), reply \in LLMReplies }

(***************************************************************************)
(* The Whistle: POST /api/v1/whistle/judge                                 *)
(***************************************************************************)
\* Validation of the request body against WhistleRequest.
WhistleRequest(body) ==
    /\ body.situation_description # None
    /\ Len(body.situation_description[1]) >= 1
    /\ (body.rule_type = None \/ body.rule_type[1] \in {FIBA, NBA})

\* parse_situation raises.
parse_situation_raises(user_info) ==
    user_info.situation_description = None
    \/ user_info.situation_description[1] = <<>>

MAX_SITUATION_LENGTH == 1000

\* The words of _BLOCKED_PATTERNS.
w_ignore == <<"i", "g", "n", "o", "r", "e">>
w_all == <<"a", "l", "l">>
w_previous == <<"p", "r", "e", "v", "i", "o", "u", "s">>
w_instructions == <<"i", "n", "s", "t", "r", "u", "c", "t", "i", "o", "n", "s">>
w_forget == <<"f", "o", "r", "g", "e", "t">>
w_above == <<"a", "b", "o", "v", "e">>
w_you == <<"y", "o", "u">>
w_are == <<"a", "r", "e">>
w_now == <<"n", "o", "w">>
w_disregard == <<"d", "i", "s", "r", "e", "g", "a", "r", "d">>
w_prior == <<"p", "r", "i", "o", "r">>

\* A literal word of the pattern matched at index i under re.IGNORECASE:
\* the index after it, or 0 for no match (0 in, 0 out).
match_word(text, i, word) ==
    IF /\ i >= 1
       /\ i + Len(word) - 1 <= Len(text)
       /\ lower(SubSeq(text, i, i + Len(word) - 1)) = word
    THEN i + Len(word)
    ELSE 0

RECURSIVE skip_whitespace(_, _)
skip_whitespace(text, i) ==
    IF i <= Len(text) /\ text[i] \in Whitespace
    THEN skip_whitespace(text, i + 1)
    ELSE i

\* \s+ at index i: greedy, and what follows it in every pattern is a
\* letter, so the longest run is the only one that can match.
match_whitespace(text, i) ==
    IF i >= 1 /\ i <= Len(text) /\ text[i] \in Whitespace
    THEN skip_whitespace(text, i)
    ELSE 0

\* word \s+ word \s+ ... word at index i.
RECURSIVE match_words(_, _, _)
match_words(text, i, words) ==
    IF Len(words) = 1 THEN match_word(text, i, words[1])
    ELSE match_words(text,
                     match_whitespace(text, match_word(text, i, words[1])),
                     Tail(words))

\* head \s+ (all \s+)? rest at index i: the optional group is tried first.
match_optional_all(text, i, head, rest) ==
    LET a == match_whitespace(text, match_word(text, i, head))
        b == match_whitespace(text, match_word(text, a, w_all))
    IN  IF match_words(text, b, rest) # 0
        THEN match_words(text, b, rest)
        ELSE match_words(text, a, rest)

\* _BLOCKED_PATTERNS matched at index i: the first alternative that
\* matches there; the index after the match, or 0.
blocked_match(text, i) ==
    IF match_optional_all(text, i, w_ignore, <<w_previous, w_instructions>>) # 0
    THEN match_optional_all(text, i, w_ignore, <<w_previous, w_instructions>>)
    ELSE IF match_optional_all(text, i, w_forget, <<w_above>>) # 0
    THEN match_optional_all(text, i, w_forget, <<w_above>>)
    ELSE IF match_words(text, i, <<w_you, w_are, w_now>>) # 0
    THEN match_words(text, i, <<w_you, w_are, w_now>>)
    ELSE match_optional_all(text, i, w_disregard, <<w_prior>>)

\* _BLOCKED_PATTERNS.sub("", text) from index i on: one scan from left to
\* right that leaves out each match and goes on after it.
RECURSIVE blocked_sub(_, _)
blocked_sub(text, i) ==
    IF i > Len(text) THEN <<>>
    ELSE IF blocked_match(text, i) # 0
    THEN blocked_sub(text, blocked_match(text, i))
    ELSE <<text[i]>> \o blocked_sub(text, i + 1)

\* _sanitize_situation
_sanitize_situation(text) ==
    strip(blocked_sub(slice_to(text, MAX_SITUATION_LENGTH), 1))

\* n_rules and n_glossary of the hybrid search of the judge.
RuleLimit == 5
GlossaryLimit == 3

\* retrieve_rules_and_glossary: the context, or the error it raises.
retrieve_rules_and_glossary(user_info, init) ==
    { IF h.outcome.kind = "raise"
      THEN [outcome |-> Raise("Failed to retrieve rules from database"),
            log |-> h.log, answers |-> h.answers, initialized |-> h.initialized]
      ELSE [outcome |-> Return(h.outcome.value.rules \o h.outcome.value.glossary),
            log |-> h.log, answers |-> h.answers, initialized |-> h.initialized] :
      h \in hybrid_search(Some(_sanitize_situation(
                                   user_info.situation_description[1])),
                          user_info.rule_type, RuleLimit, GlossaryLimit, init) }

\* The partition of the context at the head of generate_judgment.
generate_judgment(context) ==
    [agent |-> "judge",
     context |-> context,
     parts |-> [rules |-> select(context,
                                 {d \in Range(context) :
                                    Get(d.metadata, "doc_type", "None") = "rule"}),
                glossary |-> select(context,
                                    {d \in Range(context) :
                                       Get(d.metadata, "doc_type", "None")
                                         = "glossary"})]]

judge_situation(body, init) ==
    IF ~ WhistleRequest(body)
    THEN {AgentRun(Response(422), <<>>, <<>>, init, <<>>)}
    ELSE IF parse_situation_raises(body)
    THEN {AgentRun(Response(500), <<>>, <<>>, init, <<>>)}
    ELSE UNION {
           IF r.outcome.kind = "raise"
           THEN {AgentRun(Response(500), r.log, r.answers, r.initialized, <<>>)}
           ELSE { AgentRun(synthesis_response(reply), r.log, r.answers,
                           r.initialized,
                           <<generate_judgment(r.outcome.value)>>) :
                  reply \in LLMReplies } :
           r \in retrieve_rules_and_glossary(body, init) }

(***************************************************************************)
(* Skill lab: POST /api/v1/skill/                                          *)
(***************************************************************************)
SkillLevels == {"beginner", "intermediate", "advanced"}
FocusAreas == {"dribble", "shooting", "defense", "conditioning"}

\* Validation of the request body against SkillLabRequest.
SkillLabRequest(body) ==
    /\ body.skill_level # None /\ body.skill_level[1] \in SkillLevels
    /\ body.focus_area # None /\ body.focus_area[1] \in FocusAreas
    /\ body.available_time_min # None /\ body.available_time_min[1] > 0

\* Drill metadata as add_drills writes it (the key the agent reads).
DrillCatalog ==
    << [page_content |-> "drill1",
        metadata |-> [name |-> <<"p">>, required_equipment |-> <<>>]],
       [page_content |-> "drill2",
        metadata |-> [name |-> <<"q">>,
                      required_equipment |-> <<"b", ",", "c">>]] >>

DrillRankings == Rankings(DrillCatalog)

query_drills(n_results, init) == QueryAnswers(DrillRankings, n_results, init)

\* n_results of the drill query of the coach.
DrillPoolSize == 10

\* The equipment post-filter of retrieve_drills.
has_equipment(doc, equipment) ==
    LET required_equipment_str == Get(doc.metadata, "required_equipment", <<>>)
    IN  \/ required_equipment_str = <<>>
        \/ Range(split(required_equipment_str, ",")) \subseteq Range(equipment)

retrieve_drills(user_info, init) ==
    { Retrieved(IF Failed(answer) \/ answer.kind = "none" THEN <<>>
                ELSE select(as_documents(answer.documents),
                            {d \in Range(as_documents(answer.documents)) :
                               has_equipment(d, user_info.equipment)}),
                <<StoreCall("query_drills", DrillPoolSize, None)>>,
                <<answer>>, ensure_initialized(init, answer)) :
      answer \in query_drills(DrillPoolSize, init) }

\* generate_routine puts the whole context into the prompt.
generate_routine(context) ==
    [agent |-> "coach", context |-> context, parts |-> [drills |-> context]]

create_skill_routine(body, init) ==
    IF ~ SkillLabRequest(body)
    THEN {AgentRun(Response(422), <<>>, <<>>, init, <<>>)}
    ELSE { AgentRun(synthesis_response(reply), r.log, r.answers, r.initialized,
                    <<generate_routine(r.context)>>) :
           r \in retrieve_drills(body, init), reply \in LLMReplies }

(***************************************************************************)
(* The calls the model makes.                                              *)
(***************************************************************************)
(***************************************************************************)
(* The unified workflow (workflow.py): router, then one agent node, END.   *)
(***************************************************************************)
i_skill_lab == <<"s", "k", "i", "l", "l", "_", "l", "a", "b">>
i_shoe_recommendation == <<"s", "h", "o", "e", "_", "r", "e", "c", "o", "m", "m", "e", "n", "d", "a", "t", "i", "o", "n">>
i_rule_query == <<"r", "u", "l", "e", "_", "q", "u", "e", "r", "y">>

valid_intents == {i_skill_lab, i_shoe_recommendation, i_rule_query}

\* What the chat completion of the router gives: an exception of the
\* client, a response without choices, or a message whose content is None
\* or a str.
RouterReplies ==
    {[kind |-> "api_error", content |-> None],
     [kind |-> "no_choices", content |-> None],
     [kind |-> "message", content |-> None]}
    \cup {[kind |-> "message", content |-> Some(c)] :
            c \in {<<>>, <<"c">>, i_skill_lab, i_shoe_recommendation,
                   i_rule_query,
                   <<" ", "R", "U", "L", "E", "_", "q", "u", "e", "r", "y", " ">>,
                   <<"r", "u", "l", "e", " ", "q", "u", "e", "r", "y">>}}

\* A router that takes the answer of the LLM as the intent without
\* validating it.
router_decision_unvalidated(reply) ==
    IF reply.kind # "message" THEN i_skill_lab
    ELSE IF truthy_str(reply.content) THEN lower(strip(reply.content[1]))
    ELSE <<>>

\* The try block of router_node and its except clause: the intent.
router_decision(reply) ==
    IF reply.kind # "message" THEN i_skill_lab
    ELSE LET intent == IF truthy_str(reply.content)
                       THEN lower(strip(reply.content[1]))
                       ELSE <<>>
         IN  IF intent \notin valid_intents THEN i_skill_lab ELSE intent

\* should_continue: the node the conditional edge goes to.
should_continue(routing_decision) ==
    IF routing_decision = i_shoe_recommendation THEN "shoe_recommendation"
    ELSE IF routing_decision = i_skill_lab THEN "skill_lab"
    ELSE IF routing_decision = i_rule_query THEN "rule_query"
    ELSE "skill_lab"

\* The state of the workflow graph: the router's reply and decision, the
\* final response, the nodes that ran, and how the agent graph a node
\* invoked ended.
AgentState(reply, routing_decision, final_response, nodes, agent) ==
    [kind |-> "state", reply |-> reply, routing_decision |-> routing_decision,
     final_response |-> final_response, nodes |-> nodes, agent |-> agent]

\* coach_agent_graph.invoke: diagnose_user_state, retrieve_drills,
\* generate_routine, which returns the validated JSON or raises ValueError.
coach_agent_graph(user_info, init) ==
    IF user_info = None
    THEN {AgentRun(Raise("User info is missing from the state."),
                   <<>>, <<>>, init, <<>>)}
    ELSE { AgentRun(IF reply = "valid" THEN Return("routine")
                    ELSE Raise(reply),
                    r.log, r.answers, r.initialized,
                    <<generate_routine(r.context)>>) :
           r \in retrieve_drills(user_info[1], init), reply \in LLMReplies }

\* gear_agent_graph.invoke: analyze_preferences, retrieve_shoes_and_players,
\* generate_recommendations.
gear_agent_graph(user_info, init) ==
    IF user_info = None
    THEN {AgentRun(Raise("User info is missing from the state."),
                   <<>>, <<>>, init, <<>>)}
    ELSE IF analyze_preferences_raises(user_info[1])
    THEN {AgentRun(Raise("Sensory preferences are required for gear recommendations."),
                   <<>>, <<>>, init, <<>>)}
    ELSE { AgentRun(IF reply = "valid" THEN Return("recommendations")
                    ELSE Raise(reply),
                    r.log, r.answers, r.initialized,
                    <<generate_recommendations(r.context)>>) :
           r \in retrieve_shoes_and_players(user_info[1], init),
           reply \in LLMReplies }

\* The except clause of an agent node: a fixed error JSON.
node_error(error) ==
    [error |-> error,
     message |-> "An internal error occurred while processing your request. Please try again later."]

\* user_info of the workflow state: empty, or a profile with or without
\* sensory preferences.
WorkflowUserInfos ==
    {None}
    \cup {Some([sensory_preferences |-> s, player_archetype |-> None,
                position |-> None, budget_max_krw |-> Some(1),
                skill_level |-> Some("beginner"),
                focus_area |-> Some("dribble"),
                available_time_min |-> Some(30),
                equipment |-> <<>>]) :
            s \in {None, Some(<< <<"a">> >>)}}

WorkflowRequests ==
    [op : {"unified_workflow"},
     messages : {<<>>, <<"m1">>, <<"m1", "m2">>},
     user_info : WorkflowUserInfos]

KeywordLists ==
    { <<>>,
      << <<>> >>,
      << <<" ">>, <<" ", " ">> >>,
      << <<"a">> >>,
      << <<" ">>, <<"a", " ">> >> }

Budgets == {None} \cup {Some(b) : b \in 0..MaxBudget}

Positions ==
    { None,
      Some(<<>>),
      Some(PositionGuard),
      Some(<<"G", "u", "a", "r", "d">>),
      Some(PositionForward),
      Some(<<"C", "E", "N", "T", "E", "R">>),
      Some(<<"w", "i", "n", "g">>),
      Some(<<" ">> \o PositionGuard) }

Limits == 1..MaxPool

Texts == {None, Some(<<>>), Some(<<" ", " ">>), Some(<<"c">>), Some(<<" ", "c">>)}

RuleTypes == {None, Some(<<>>), Some(<<"f", "i", "b", "a">>), Some(NBA)}

Categories == {None, Some(Foul)}

SignatureLists ==
    { <<>>,
      << <<>> >>,
      << <<" ">>, <<>> >>,
      << <<"c">> >>,
      << <<" ", "C", " ">>, <<>> >>,
      << <<"u", " ", "c">> >>,
      << <<"z">>, <<"K">> >>,
      << <<"z">> >> }

SensoryRequests ==
    [op : {"search_by_sensory_preferences"}, sensory_keywords : KeywordLists,
     budget_max_krw : Budgets, position : Positions, n_results : Limits]

PlayerRequests ==
    [op : {"search_by_player_archetype"},
     player_name : Texts \cup {Some(<<"z">>)}, n_results : Limits]

CrossRequests ==
    [op : {"cross_analysis_search"},
     sensory_keywords : {<< <<" ">> >>, << <<"a">> >>},
     player_archetype : {None, Some(<<" ">>), Some(<<"c">>)},
     budget_max_krw : Budgets,
     position : {None, Some(PositionGuard)},
     n_shoes : 0..MaxShoes]

BoostRequests ==
    [op : {"_boost_signature_shoes"}, shoes : ShoeRankings,
     signature_models : SignatureLists]

SituationRequests ==
    [op : {"search_by_situation"}, situation : Texts, rule_type : RuleTypes,
     n_results : Limits]

GlossaryRequests ==
    [op : {"search_glossary_terms"}, query : Texts, category : Categories,
     n_results : Limits]

HybridRequests ==
    [op : {"hybrid_search"}, situation : Texts, rule_type : RuleTypes,
     n_rules : Limits, n_glossary : Limits]

GearRequests ==
    [op : {"recommend_gear"},
     body : [sensory_preferences : {None, Some(<<>>), Some(<< <<"a">> >>)},
             player_archetype : {None, Some(<<"c">>)},
             position : {None, Some(PositionGuard)},
             budget_max_krw : {None, Some(0), Some(1)}]]

JudgeRequests ==
    [op : {"judge_situation"},
     body : [situation_description :
                 {None, Some(<<>>), Some(<<" ">>), Some(<<" ", "c">>)},
             rule_type : {None, Some(FIBA), Some(<<"f", "i", "b", "a">>)}]]

SkillRequests ==
    [op : {"create_skill_routine"},
     body : [skill_level : {Some("beginner"), Some("pro")},
             focus_area : {None, Some("dribble")},
             available_time_min : {Some(0), Some(30)},
             equipment : {<<>>, << <<"b">> >>, << <<"c">>, <<"b">> >>}]]

\* Pieces of situation texts: parts of a blocked phrase, a blocked phrase
\* in lower and in upper case, and other text.
Pieces ==
    { w_you \o <<" ">> \o w_are \o <<" ">>,
      w_you \o <<" ">> \o w_are \o <<" ">> \o w_now,
      <<" ">> \o w_now,
      <<"y", "O", "U", " ", " ", "A", "R", "E", " ", "N", "O", "W">>,
      w_forget \o <<" ">>,
      w_all \o <<" ">> \o w_above,
      <<" ">>,
      <<"c">> }

RECURSIVE concat(_)
\* "".join(pieces)
concat(pieces) ==
    IF pieces = <<>> THEN <<>> ELSE Head(pieces) \o concat(Tail(pieces))

\* The texts _sanitize_situation is called with.
SanitizeRequests ==
    { [op |-> "_sanitize_situation", text |-> concat(pieces)] :
        pieces \in UNION {[1..k -> Pieces] : k \in 0..MaxPieces} }

\* HTTPException(status_code=, detail=) as the response it becomes; the
\* detail is the sequence of the parts its string is made of.
HTTPException(status_code, detail) ==
    [kind |-> "response", value |-> status_code, detail |-> detail]

Endpoints == {"gear", "whistle", "skill"}

\* str(e) of an exception of the agent graph, e.g. the text of an error of
\* the store or of the LLM client.
ExceptionTexts == {"text1", "text2"}

\* What the try block of an endpoint raises: an HTTPException of the
\* endpoint itself (no final response; whistle: invalid LLM JSON), or
\* another exception, of the agent graph or of the response validation.
Exceptions ==
    [type : {"HTTPException"}, status_code : {500},
     text : {<<"Agent failed to produce a final response.">>}]
    \cup [type : {"HTTPException"}, status_code : {422},
          text : {<<"LLM returned invalid judgment response">>}]
    \cup [type : {"ValueError", "ValidationError"}, status_code : {0},
          text : {<<t>> : t \in ExceptionTexts}]

\* The except clause of an endpoint, for the exception e it caught.
endpoint_except(endpoint, e) ==
    IF e.type = "HTTPException"
    THEN HTTPException(e.status_code, e.text)
    ELSE IF endpoint = "skill"
    THEN HTTPException(500, <<"An internal error occurred: ">> \o e.text)
    ELSE HTTPException(500, <<"Internal server error">>)

ExceptRequests ==
    [op : {"endpoint_except"}, endpoint : Endpoints, exception : Exceptions]

Pending == [kind |-> "pending", value |-> <<>>]

Init ==
    /\ initialized \in BOOLEAN
    /\ \/ request \in SensoryRequests
       \/ request \in PlayerRequests
       \/ request \in CrossRequests
       \/ request \in BoostRequests
       \/ request \in SituationRequests
       \/ request \in GlossaryRequests
       \/ request \in HybridRequests
       \/ request \in GearRequests
       \/ request \in JudgeRequests
       \/ request \in SkillRequests
       \/ request \in SanitizeRequests
       \/ request \in ExceptRequests
       \/ request \in WorkflowRequests
    /\ pc = "call"
    /\ storeLog = <<>>
    /\ storeAnswers = <<>>
    /\ outcome = Pending
    /\ synthesis = <<>>
    /\ client = Handle("client", initialized)
    /\ collection = Handle("drills", initialized)
    /\ shoes_collection = Handle("shoes", initialized)
    /\ players_collection = Handle("players", initialized)
    /\ init_lock = None
    /\ threads = <<>>
    /\ stored = [c \in CollectionNames |-> EmptyCollection]
    /\ completed = 0

\* The operation ends with the run it made.
Finish(run) ==
    /\ outcome' = run.outcome
    /\ storeLog' = run.log
    /\ storeAnswers' = run.answers
    /\ initialized' = run.initialized
    /\ synthesis' = IF "synthesis" \in DOMAIN run THEN run.synthesis ELSE <<>>
    /\ client' = Handle("client", run.initialized)
    /\ collection' = Handle("drills", run.initialized)
    /\ shoes_collection' = Handle("shoes", run.initialized)
    /\ players_collection' = Handle("players", run.initialized)
    /\ pc' = "done"
    /\ UNCHANGED <<request, threadVars>>

SearchBySensoryPreferences ==
    /\ pc = "call"
    /\ request.op = "search_by_sensory_preferences"
    /\ \E run \in search_by_sensory_preferences(
                      request.sensory_keywords, request.budget_max_krw,
                      request.position, request.n_results, initialized) :
           Finish(run)

SearchByPlayerArchetype ==
    /\ pc = "call"
    /\ request.op = "search_by_player_archetype"
    /\ \E run \in search_by_player_archetype(
                      request.player_name, request.n_results, initialized) :
           Finish(run)

CrossAnalysisSearch ==
    /\ pc = "call"
    /\ request.op = "cross_analysis_search"
    /\ \E run \in cross_analysis_search(
                      request.sensory_keywords, request.player_archetype,
                      request.budget_max_krw, request.position,
                      request.n_shoes, initialized) :
           Finish(run)

BoostSignatureShoes ==
    /\ pc = "call"
    /\ request.op = "_boost_signature_shoes"
    /\ Finish(Run(Return(_boost_signature_shoes(request.shoes,
                                                request.signature_models)),
                  <<>>, <<>>, initialized))

SearchBySituation ==
    /\ pc = "call"
    /\ request.op = "search_by_situation"
    /\ \E run \in search_by_situation(
                      request.situation, request.rule_type,
                      request.n_results, initialized) :
           Finish(run)

SearchGlossaryTerms ==
    /\ pc = "call"
    /\ request.op = "search_glossary_terms"
    /\ \E run \in search_glossary_terms(
                      request.query, request.category,
                      request.n_results, initialized) :
           Finish(run)

HybridSearch ==
    /\ pc = "call"
    /\ request.op = "hybrid_search"
    /\ \E run \in hybrid_search(
                      request.situation, request.rule_type,
                      request.n_rules, request.n_glossary, initialized) :
           Finish(run)

RecommendGear ==
    /\ pc = "call"
    /\ request.op = "recommend_gear"
    /\ \E run \in recommend_gear(request.body, initialized) : Finish(run)

JudgeSituation ==
    /\ pc = "call"
    /\ request.op = "judge_situation"
    /\ \E run \in judge_situation(request.body, initialized) : Finish(run)

CreateSkillRoutine ==
    /\ pc = "call"
    /\ request.op = "create_skill_routine"
    /\ \E run \in create_skill_routine(request.body, initialized) : Finish(run)

\* router_node, the entry point of the workflow, and the conditional edge
\* after it.  Without messages the node raises and the run ends with the
\* exception.
RouterNode ==
    /\ pc = "call"
    /\ request.op = "unified_workflow"
    /\ IF request.messages = <<>>
       THEN /\ outcome' = Raise("No messages found in state for routing.")
            /\ pc' = "done"
       ELSE \E reply \in RouterReplies :
              /\ outcome' = AgentState(reply, router_decision(reply), None,
                                       <<"router">>, None)
              /\ pc' = should_continue(router_decision(reply))
    /\ UNCHANGED <<initialized, request, storeLog, storeAnswers, synthesis,
                   handles, threadVars>>

\* An agent node ends with the final response; the edge after it goes to
\* END.
NodeEnds(node, final_response, run) ==
    Finish([run EXCEPT !.outcome =
              [outcome EXCEPT !.final_response = Some(final_response),
                              !.nodes = Append(@, node),
                              !.agent = Some(run.outcome)]])

\* skill_lab_node
SkillLabNode ==
    /\ pc = "skill_lab"
    /\ request.op = "unified_workflow"
    /\ \E run \in coach_agent_graph(request.user_info, initialized) :
         NodeEnds("skill_lab",
                  IF run.outcome.kind = "raise"
                  THEN node_error("Failed to generate training routine")
                  ELSE [json |-> run.outcome.value],
                  run)

\* shoe_recommendation_node
ShoeRecommendationNode ==
    /\ pc = "shoe_recommendation"
    /\ request.op = "unified_workflow"
    /\ \E run \in gear_agent_graph(request.user_info, initialized) :
         NodeEnds("shoe_recommendation",
                  IF run.outcome.kind = "raise"
                  THEN node_error("Failed to generate shoe recommendations")
                  ELSE [json |-> run.outcome.value],
                  run)

\* rule_query_node, a placeholder that invokes no agent.
RuleQueryNode ==
    /\ pc = "rule_query"
    /\ request.op = "unified_workflow"
    /\ Finish(AgentRun([outcome EXCEPT
                          !.final_response =
                              Some([message |-> "Rule query feature is not yet implemented.",
                                    intent |-> "rule_query"]),
                          !.nodes = Append(@, "rule_query")],
                       <<>>, <<>>, initialized, <<>>))

\* _sanitize_situation(text), which asks nothing of the store.
SanitizeSituation ==
    /\ pc = "call"
    /\ request.op = "_sanitize_situation"
    /\ Finish(Run(Return(_sanitize_situation(request.text)), <<>>, <<>>,
                  initialized))

\* The try block of an endpoint raises and its except clause answers.
EndpointExcept ==
    /\ pc = "call"
    /\ request.op = "endpoint_except"
    /\ Finish(Run(endpoint_except(request.endpoint, request.exception),
                  <<>>, <<>>, initialized))

Next ==
    \/ SearchBySensoryPreferences
    \/ SearchByPlayerArchetype
    \/ CrossAnalysisSearch
    \/ BoostSignatureShoes
    \/ SearchBySituation
    \/ SearchGlossaryTerms
    \/ HybridSearch
    \/ RecommendGear
    \/ JudgeSituation
    \/ CreateSkillRoutine
    \/ SanitizeSituation
    \/ EndpointExcept
    \/ RouterNode
    \/ SkillLabNode
    \/ ShoeRecommendationNode
    \/ RuleQueryNode

Spec == Init /\ [][Next]_vars

(***************************************************************************)
(* ChromaDBManager under threads.  Every thread calls one query_* or add_* *)
(* method of the one manager of the process; a step of a thread is one     *)
(* statement of _ensure_initialized or the method's own work.              *)
(***************************************************************************)
MaxThreads == 2    \* threads that use the manager

Threads == 1..MaxThreads

QueryMethods == {"query_drills", "query_shoes", "query_players"}
AddMethods == {"add_drills", "add_shoes", "add_players"}

\* The collection a method works on.
CollectionOf(method) ==
    CASE method \in {"query_drills", "add_drills"} -> "drills"
      [] method \in {"query_shoes", "add_shoes"} -> "shoes"
      [] method \in {"query_players", "add_players"} -> "players"

\* self.collection, self.shoes_collection, self.players_collection
HandleOf(name) ==
    CASE name = "drills" -> collection
      [] name = "shoes" -> shoes_collection
      [] name = "players" -> players_collection

\* The records and embeddings an add_* method is called with.
Record1 == [id |-> "r1", name |-> "n1"]
Record2 == [id |-> "r2", name |-> "n2"]

Batches ==
    { [records |-> <<>>, embeddings |-> <<>>],
      [records |-> <<Record1>>, embeddings |-> <<>>],
      [records |-> <<Record2>>, embeddings |-> <<"v2", "v3">>],
      [records |-> <<Record2>>, embeddings |-> <<"v2">>],
      [records |-> <<Record1, Record2>>, embeddings |-> <<"v1", "v2">>] }

Idle == [pc |-> "idle", method |-> "none", batch |-> <<>>, result |-> "none"]

\* The manager after __init__, no thread in a method yet.
ManagerInit ==
    /\ initialized = FALSE
    /\ client = None
    /\ collection = None
    /\ shoes_collection = None
    /\ players_collection = None
    /\ init_lock = None
    /\ threads = [t \in Threads |-> Idle]
    /\ stored = [c \in CollectionNames |-> EmptyCollection]
    /\ completed = 0
    /\ request = [op |-> "none"]
    /\ pc = "threads"
    /\ storeLog = <<>>
    /\ storeAnswers = <<>>
    /\ outcome = Pending
    /\ synthesis = <<>>

\* Thread t goes to pc p.
Goto(t, p) == threads' = [threads EXCEPT ![t].pc = p]

\* The method of thread t ends with an exception or with a return.
Ends(t, result) == threads' = [threads EXCEPT ![t].pc = "done", ![t].result = result]

\* A thread calls a method of the manager: its first statement is
\* self._ensure_initialized().
Call(t) ==
    /\ threads[t].pc = "idle"
    /\ \E method \in QueryMethods \cup AddMethods :
           threads' = [threads EXCEPT ![t].pc = "first_check",
                                      ![t].method = method]
    /\ UNCHANGED <<initialized, callVars, handles, init_lock, stored, completed>>

\* if self._initialized: return (without the lock)
FirstCheck(t) ==
    /\ threads[t].pc = "first_check"
    /\ IF initialized THEN Goto(t, "operate") ELSE Goto(t, "acquire")
    /\ UNCHANGED <<initialized, callVars, handles, init_lock, stored, completed>>

\* with self._init_lock:
Acquire(t) ==
    /\ threads[t].pc = "acquire"
    /\ init_lock = None
    /\ init_lock' = Some(t)
    /\ Goto(t, "second_check")
    /\ UNCHANGED <<initialized, callVars, handles, stored, completed>>

\* A second check that never finds the manager initialised.
second_check_skipped(flag) == FALSE

\* if self._initialized: return (with the lock)
second_check(flag) == flag

\* The second check; the return leaves the with block and frees the lock.
SecondCheck(t) ==
    /\ threads[t].pc = "second_check"
    /\ IF second_check(initialized)
       THEN init_lock' = None /\ Goto(t, "operate")
       ELSE init_lock' = init_lock /\ Goto(t, "create_client")
    /\ UNCHANGED <<initialized, callVars, handles, stored, completed>>

\* The order of the statements of the initialization body, with the flag
\* set before the last handle.
after_flag_before_players(p) ==
    CASE p = "create_client" -> "create_collection"
      [] p = "create_collection" -> "create_shoes"
      [] p = "create_shoes" -> "publish"
      [] p = "publish" -> "create_players"
      [] p = "create_players" -> "release"

\* The order of the statements of the initialization body.
after(p) ==
    CASE p = "create_client" -> "create_collection"
      [] p = "create_collection" -> "create_shoes"
      [] p = "create_shoes" -> "create_players"
      [] p = "create_players" -> "publish"
      [] p = "publish" -> "release"

\* An exception in the body that ends the method with the lock still held.
BodyRaises_keeping_lock(t) ==
    /\ init_lock' = init_lock
    /\ Ends(t, "raised")
    /\ UNCHANGED <<initialized, callVars, handles, stored, completed>>

\* An exception in the body leaves the with block: the lock is freed and
\* the method of the thread ends with the exception.
BodyRaises(t) ==
    /\ init_lock' = None
    /\ Ends(t, "raised")
    /\ UNCHANGED <<initialized, callVars, handles, stored, completed>>

\* The API key check and self.client = chromadb.PersistentClient(...)
CreateClient(t) ==
    /\ threads[t].pc = "create_client"
    /\ \/ BodyRaises(t)
       \/ /\ client' = Some("client")
          /\ Goto(t, after("create_client"))
          /\ UNCHANGED <<initialized, callVars, collection, shoes_collection,
                         players_collection, init_lock, stored, completed>>

\* The embedding function and
\* self.collection = self.client.get_or_create_collection(...)
CreateCollection(t) ==
    /\ threads[t].pc = "create_collection"
    /\ \/ BodyRaises(t)
       \/ /\ collection' = Some("drills")
          /\ Goto(t, after("create_collection"))
          /\ UNCHANGED <<initialized, callVars, client, shoes_collection,
                         players_collection, init_lock, stored, completed>>

\* self.shoes_collection = self.client.get_or_create_collection(...)
CreateShoesCollection(t) ==
    /\ threads[t].pc = "create_shoes"
    /\ \/ BodyRaises(t)
       \/ /\ shoes_collection' = Some("shoes")
          /\ Goto(t, after("create_shoes"))
          /\ UNCHANGED <<initialized, callVars, client, collection,
                         players_collection, init_lock, stored, completed>>

\* self.players_collection = self.client.get_or_create_collection(...)
CreatePlayersCollection(t) ==
    /\ threads[t].pc = "create_players"
    /\ \/ BodyRaises(t)
       \/ /\ players_collection' = Some("players")
          /\ Goto(t, after("create_players"))
          /\ UNCHANGED <<initialized, callVars, client, collection,
                         shoes_collection, init_lock, stored, completed>>

\* self._initialized = True
Publish(t) ==
    /\ threads[t].pc = "publish"
    /\ initialized' = TRUE
    /\ completed' = completed + 1
    /\ Goto(t, after("publish"))
    /\ UNCHANGED <<callVars, handles, init_lock, stored>>

\* The end of the with block.
Release(t) ==
    /\ threads[t].pc = "release"
    /\ init_lock' = None
    /\ Goto(t, "operate")
    /\ UNCHANGED <<initialized, callVars, handles, stored, completed>>

\* A query_* method after _ensure_initialized: collection.query reads the
\* collection and answers or raises.
Query(t) ==
    /\ threads[t].pc = "operate"
    /\ threads[t].method \in QueryMethods
    /\ IF HandleOf(CollectionOf(threads[t].method)) = None
       THEN Ends(t, "raised")
       ELSE \E result \in {"returned", "raised"} : Ends(t, result)
    /\ UNCHANGED <<initialized, callVars, handles, init_lock, stored, completed>>

\* An add_* method that does not compare the two lengths.
lengths_unchecked(records, embeddings) == TRUE

\* len(records) != len(embeddings) raises ValueError.
lengths_match(records, embeddings) == Len(records) = Len(embeddings)

\* ids = [record["id"] for record in records]
ids_of(records) == [i \in DOMAIN records |-> records[i].id]

\* documents = [format_*_document(record) for record in records]
documents_of(name, records) ==
    [i \in DOMAIN records |-> <<name, records[i].name>>]

\* metadatas of add_drills, add_shoes and add_players (the keys id, name
\* and doc_type).
metadatas_of(name, records) ==
    [i \in DOMAIN records |->
        CASE name = "drills" -> [name |-> records[i].name]
          [] name = "shoes" -> [doc_type |-> "shoe", shoe_id |-> records[i].id]
          [] name = "players" -> [doc_type |-> "player",
                                  name |-> records[i].name]]

\* collection.add(ids=, embeddings=, documents=, metadatas=) when the store
\* accepts the call.
collection_add(coll, ids, embeddings, documents, metadatas) ==
    [ids |-> coll.ids \o ids,
     embeddings |-> coll.embeddings \o embeddings,
     documents |-> coll.documents \o documents,
     metadatas |-> coll.metadatas \o metadatas]

\* The store accepts ids it does not hold yet.
accepts(coll, ids) == \A i \in DOMAIN ids : ids[i] \notin Range(coll.ids)

\* An add_* method after _ensure_initialized, called with a batch.
Add(t) ==
    /\ threads[t].pc = "operate"
    /\ threads[t].method \in AddMethods
    /\ \E batch \in Batches :
         LET name == CollectionOf(threads[t].method)
             Finished(result) ==
                 threads' = [threads EXCEPT ![t].pc = "done",
                                            ![t].batch = Some(batch),
                                            ![t].result = result]
         IN  IF ~ lengths_match(batch.records, batch.embeddings)
             THEN Finished("raised") /\ UNCHANGED stored
             ELSE IF batch.records = <<>>
             THEN Finished("returned") /\ UNCHANGED stored
             ELSE IF HandleOf(name) = None
             THEN Finished("raised") /\ UNCHANGED stored
             ELSE \/ Finished("raised") /\ UNCHANGED stored
                  \/ /\ accepts(stored[name], ids_of(batch.records))
                     /\ stored' =
                          [stored EXCEPT ![name] =
                              collection_add(@, ids_of(batch.records),
                                             batch.embeddings,
                                             documents_of(name, batch.records),
                                             metadatas_of(name, batch.records))]
                     /\ Finished("returned")
    /\ UNCHANGED <<initialized, callVars, handles, init_lock, completed>>

ManagerNext ==
    \E t \in Threads :
        \/ Call(t)
        \/ FirstCheck(t)
        \/ Acquire(t)
        \/ SecondCheck(t)
        \/ CreateClient(t)
        \/ CreateCollection(t)
        \/ CreateShoesCollection(t)
        \/ CreatePlayersCollection(t)
        \/ Publish(t)
        \/ Release(t)
        \/ Query(t)
        \/ Add(t)

ManagerSpec == ManagerInit /\ [][ManagerNext]_vars

(***************************************************************************)
(* Startup: the lifespan of the application (main.py), run by one thread   *)
(* before requests are served.  StartupSpec runs it on a manager that is   *)
(* fresh (process start) or was initialised by an earlier use, over a      *)
(* persistent store whose collections are empty or hold earlier records,   *)
(* and runs it again after it ended.                                       *)
(***************************************************************************)
MaxRuns == 2    \* runs of the lifespan in one process

StartupCollections == {"drills", "shoes", "players", "rules", "glossary"}

\* self.rules_collection and self.glossary_collection, set by the
\* initialization body like the three handles above.
rules_collection == Handle("rules", initialized)
glossary_collection == Handle("glossary", initialized)

\* chroma_manager.<handle> as the lifespan reads it.
StartupHandleOf(name) ==
    CASE name = "drills" -> collection
      [] name = "shoes" -> shoes_collection
      [] name = "players" -> players_collection
      [] name = "rules" -> rules_collection
      [] name = "glossary" -> glossary_collection

\* A record a collection holds from an earlier run of the process.
Record0 == [id |-> "r0", name |-> "n0"]

\* A JSON source file: missing, an empty list, or two records.
JsonSources == {None, Some(<<>>), Some(<<Record1, Record2>>)}

\* A rules PDF: missing, or parsed into one chunk.
FibaSources == {None, Some(<<Record1>>)}
NbaSources == {None, Some(<<Record2>>)}

\* generate_embeddings(texts): nothing for no texts, else what the
\* embeddings API answers: one vector per text, fewer, or an exception.
generate_embeddings(texts) ==
    IF texts = <<>> THEN {Return(<<>>)}
    ELSE {Return([i \in DOMAIN texts |-> <<"embedding", texts[i]>>]),
          Return(<<>>),
          Raise("APIError")}

\* metadatas of add_rules and add_glossary.
rule_metadatas_of(name, records) ==
    [i \in DOMAIN records |->
        [doc_type |-> IF name = "rules" THEN "rule" ELSE "glossary",
         name |-> records[i].name]]

\* An add_* method called on an initialised manager (_ensure_initialized
\* returns at its first check): the exception or return, and the
\* collection after it.
add_records(name, records, embeddings, coll) ==
    IF ~ lengths_match(records, embeddings)
    THEN {[outcome |-> Raise("ValueError"), coll |-> coll]}
    ELSE IF records = <<>>
    THEN {[outcome |-> Return(None), coll |-> coll]}
    ELSE {[outcome |-> Raise("StoreError"), coll |-> coll]}
         \cup (IF accepts(coll, ids_of(records))
               THEN {[outcome |-> Return(None),
                      coll |-> collection_add(
                                 coll, ids_of(records), embeddings,
                                 documents_of(name, records),
                                 IF name \in CollectionNames
                                 THEN metadatas_of(name, records)
                                 ELSE rule_metadatas_of(name, records))]}
               ELSE {})

\* all_chunks of the rules section: the chunks of the PDFs that exist.
all_chunks(source) ==
    (IF source.fiba = None THEN <<>> ELSE source.fiba[1])
    \o (IF source.nba = None THEN <<>> ELSE source.nba[1])

\* One section of the lifespan, `if chroma_manager.<handle>.count() == 0:`
\* with its load, embed and add_* steps: the exception it raises or its
\* normal end, and the collection after it.  The length check of the
\* drills section raises the same ValueError as add_drills would.
populate(name, handle, source, coll) ==
    LET ends(out) == {[outcome |-> out, coll |-> coll]}
        embed_and_add(records) ==
            UNION { IF e.kind = "raise" THEN ends(e)
                    ELSE add_records(name, records, e.value, coll) :
                    e \in generate_embeddings(documents_of(name, records)) }
    IN  IF handle = None THEN ends(Raise("AttributeError"))
        ELSE IF Len(coll.ids) # 0 THEN ends(Return(None))
        ELSE CASE name \in {"drills", "shoes", "players"} ->
                    IF source = None THEN ends(Raise("FileNotFoundError"))
                    ELSE embed_and_add(source[1])
               [] name = "rules" ->
                    IF all_chunks(source) = <<>> THEN ends(Return(None))
                    ELSE embed_and_add(all_chunks(source))
               [] name = "glossary" ->
                    IF source = None THEN ends(Return(None))
                    ELSE embed_and_add(source[1])

\* A collection of the persistent store that holds a record already.
Populated ==
    [ids |-> <<Record0.id>>, embeddings |-> <<"v0">>,
     documents |-> <<Record0.name>>, metadatas |-> <<[name |-> Record0.name]>>]

\* One run of the lifespan: the source files it finds and the store as it
\* found it.
LifespanRequests(found) ==
    [op : {"lifespan"}, run : {1}, before : {found},
     sources : [drills : JsonSources, shoes : JsonSources,
                players : JsonSources,
                rules : [fiba : FibaSources, nba : NbaSources],
                glossary : {None, Some(<<Record1>>)}]]

StartupInit ==
    /\ initialized \in BOOLEAN
    /\ client = Handle("client", initialized)
    /\ collection = Handle("drills", initialized)
    /\ shoes_collection = Handle("shoes", initialized)
    /\ players_collection = Handle("players", initialized)
    /\ stored \in [StartupCollections -> {EmptyCollection, Populated}]
    /\ request \in LifespanRequests(stored)
    /\ pc = "drills"
    /\ storeLog = <<>>
    /\ storeAnswers = <<>>
    /\ outcome = Pending
    /\ synthesis = <<>>
    /\ init_lock = None
    /\ threads = <<>>
    /\ completed = 0

\* One section of the lifespan at position here; an exception goes to the
\* except clause, which logs it and raises it again.
Section(name, here, next) ==
    /\ request.op = "lifespan"
    /\ pc = here
    /\ \E r \in populate(name, StartupHandleOf(name), request.sources[name], stored[name]) :
         /\ stored' = [stored EXCEPT ![name] = r.coll]
         /\ IF r.outcome.kind = "raise"
            THEN outcome' = r.outcome /\ pc' = "done"
            ELSE outcome' = outcome /\ pc' = next
    /\ storeLog' = Append(storeLog, [fn |-> "count", collection |-> name,
                                     handle |-> StartupHandleOf(name),
                                     initialized |-> initialized])
    /\ UNCHANGED <<initialized, request, storeAnswers, synthesis, handles,
                   init_lock, threads, completed>>

LifespanDrills == Section("drills", "drills", "shoes")
LifespanShoes == Section("shoes", "shoes", "players")
LifespanPlayers == Section("players", "players", "rules")
LifespanRules == Section("rules", "rules", "glossary")
LifespanGlossary == Section("glossary", "glossary", "yield")

\* yield: startup is complete and the application serves requests.
LifespanYield ==
    /\ request.op = "lifespan"
    /\ pc = "yield"
    /\ outcome' = Return(None)
    /\ pc' = "done"
    /\ UNCHANGED <<initialized, request, storeLog, storeAnswers, synthesis,
                   handles, threadVars>>

\* Between two runs of the lifespan a caller uses the manager for the first
\* time: _ensure_initialized runs its body, which sets the handles and the
\* flag, or raises and leaves the flag false.
FirstUse ==
    /\ request.op = "lifespan"
    /\ pc = "done"
    /\ ~ initialized
    /\ \/ /\ initialized' = TRUE
          /\ client' = Some("client")
          /\ collection' = Some("drills")
          /\ shoes_collection' = Some("shoes")
          /\ players_collection' = Some("players")
       \/ UNCHANGED <<initialized, handles>>
    /\ UNCHANGED <<callVars, threadVars>>

\* The lifespan runs again in the same process.
Rerun ==
    /\ request.op = "lifespan"
    /\ pc = "done"
    /\ request.run < MaxRuns
    /\ request' = [request EXCEPT !.run = @ + 1, !.before = stored]
    /\ pc' = "drills"
    /\ outcome' = Pending
    /\ storeLog' = <<>>
    /\ UNCHANGED <<initialized, storeAnswers, synthesis, handles, threadVars>>

StartupNext ==
    \/ LifespanDrills
    \/ LifespanShoes
    \/ LifespanPlayers
    \/ LifespanRules
    \/ LifespanGlossary
    \/ LifespanYield
    \/ FirstUse
    \/ Rerun

StartupSpec == StartupInit /\ [][StartupNext]_vars

(***************************************************************************)
(* Properties.  The predicates of this section are written from the        *)
(* statements they check, not from the operators above.                    *)
(***************************************************************************)
Done(op) == pc = "done" /\ request.op = op

\* A str that is empty or holds whitespace only.
IsBlank(s) == \A i \in DOMAIN s : s[i] = " "

\* The request is one of the four searches, or hybrid_search, on an empty
\* or whitespace-only input.
BlankInput(r) ==
    \/ /\ r.op = "search_by_sensory_preferences"
       /\ \A i \in DOMAIN r.sensory_keywords : IsBlank(r.sensory_keywords[i])
    \/ /\ r.op = "search_by_player_archetype"
       /\ r.player_name # None /\ IsBlank(r.player_name[1])
    \/ /\ r.op \in {"search_by_situation", "hybrid_search"}
       /\ r.situation # None /\ IsBlank(r.situation[1])
    \/ /\ r.op = "search_glossary_terms"
       /\ r.query # None /\ IsBlank(r.query[1])

EmptyResult(r) ==
    IF r.op = "hybrid_search"
    THEN Return([rules |-> <<>>, glossary |-> <<>>])
    ELSE Return(<<>>)

\* C1: a search on an empty or whitespace-only input returns the empty
\* sequence (hybrid_search: empty rules and empty glossary), raises nothing,
\* issues no store call and leaves _initialized as it was.
C1_BlankInputIssuesNoStoreCall ==
    [][ (pc = "call" /\ BlankInput(request))
        => /\ outcome' = EmptyResult(request)
           /\ storeLog' = <<>>
           /\ initialized' = initialized ]_vars

C1_Witness ==
    /\ Done("hybrid_search")
    /\ request.situation = Some(<<" ", " ">>)
    /\ outcome = Return([rules |-> <<>>, glossary |-> <<>>])
    /\ storeLog = <<>>
    /\ ~ initialized

FourSearches ==
    {"search_by_sensory_preferences", "search_by_player_archetype",
     "search_by_situation", "search_glossary_terms"}

\* C2: when the store query of one of the four searches raises, the search
\* raises a retrieval failure; it returns no sequence.
C2_StoreFailureIsRaised ==
    (/\ pc = "done"
     /\ request.op \in FourSearches
     /\ storeAnswers # <<>>
     /\ storeAnswers[1].kind \in {"init_error", "error"})
    => /\ outcome.kind = "raise"
       /\ outcome.value \in
            {"Failed to retrieve shoes from database",
             "Failed to retrieve player archetypes from database",
             "Failed to retrieve rules from database",
             "Failed to retrieve glossary terms from database"}

C2_Witness ==
    /\ Done("search_by_sensory_preferences")
    /\ Len(storeLog) = 1
    /\ storeAnswers[1].kind = "error"
    /\ outcome = Raise("Failed to retrieve shoes from database")

\* int(metadata.get("price_krw", 0)) as the budget test of the repository
\* reads a price: the parsed price, or no price when the value does not parse.
ParsedPrice(metadata) ==
    IF "price_krw" \notin DOMAIN metadata THEN Some(0)
    ELSE IF metadata.price_krw.t = "int" THEN Some(metadata.price_krw.v)
    ELSE IF metadata.price_krw.t = "str"
            /\ strip(metadata.price_krw.s) # <<>>
            /\ \A i \in DOMAIN strip(metadata.price_krw.s) :
                   strip(metadata.price_krw.s)[i] \in
                       {"0", "1", "2", "3", "4", "5", "6", "7", "8", "9"}
    THEN Some(DecimalValue(strip(metadata.price_krw.s)))
    ELSE None

\* The shoes a finished shoe search or cross analysis returned.
ReturnedShoes ==
    IF request.op = "cross_analysis_search" THEN outcome.value.shoes
    ELSE outcome.value

\* C3: with a budget ceiling B >= 0 supplied, every shoe that
\* search_by_sensory_preferences or cross_analysis_search returns has an
\* integer-parsed price_krw <= B.
C3_ReturnedPricesWithinBudget ==
    (/\ pc = "done"
     /\ request.op \in {"search_by_sensory_preferences", "cross_analysis_search"}
     /\ request.budget_max_krw # None
     /\ request.budget_max_krw[1] >= 0
     /\ outcome.kind = "return")
    => \A i \in DOMAIN ReturnedShoes :
           LET price == ParsedPrice(ReturnedShoes[i].metadata)
           IN  price # None /\ price[1] <= request.budget_max_krw[1]

\* The ranked candidates the store answered the shoe query with.
ShoeCandidates == storeAnswers[1].documents

\* A finished search_by_sensory_preferences whose store query answered.
SensoryAnswered ==
    /\ Done("search_by_sensory_preferences")
    /\ storeAnswers # <<>>
    /\ storeAnswers[1].kind = "ok"

\* The stored price_krw is there and is an integer or a decimal numeral.
PriceParses(metadata) ==
    "price_krw" \in DOMAIN metadata /\ ParsedPrice(metadata) # None

PriceStepApplies == request.budget_max_krw \notin {None, Some(0)}

KeptByPriceStep(doc) ==
    PriceStepApplies
    => /\ ParsedPrice(doc.metadata) # None
       /\ ParsedPrice(doc.metadata)[1] <= request.budget_max_krw[1]

PositionKeywords(p) ==
    CASE p = <<"g", "u", "a", "r", "d">> -> {TagGuard, TagLowCut}
      [] p = <<"f", "o", "r", "w", "a", "r", "d">> -> {TagForward, TagMidCut}
      [] p = <<"c", "e", "n", "t", "e", "r">> -> {TagCenter, TagHighCut, TagBigMan}
      [] OTHER -> {}

KnownPosition(p) == PositionKeywords(lower(p)) # {}

\* The comma-split, whitespace-trimmed entries of the candidate's tag list.
TagEntries(doc) ==
    IF "tags" \in DOMAIN doc.metadata
    THEN {strip(t) : t \in {split(doc.metadata.tags, ",")[i] :
                              i \in DOMAIN split(doc.metadata.tags, ",")}}
    ELSE {}

PositionAccepts(doc) ==
    \/ request.position = None
    \/ ~ KnownPosition(request.position[1])
    \/ TagEntries(doc) \cap PositionKeywords(lower(request.position[1])) # {}

KeptByPriceAndPosition(doc) == KeptByPriceStep(doc) /\ PositionAccepts(doc)

\* C5: a candidate that survives the budget step is returned exactly when
\* no position is supplied, or the position is none of guard, forward and
\* center in any letter case, or one of its trimmed tag entries is a keyword
\* of the position; a candidate without tags is dropped for a known position.
C5_PositionFilter ==
    SensoryAnswered
    => /\ outcome.kind = "return"
       /\ outcome.value = SelectSeq(ShoeCandidates, KeptByPriceAndPosition)
       /\ (request.position # None /\ KnownPosition(request.position[1]))
          => \A i \in DOMAIN outcome.value :
                 /\ "tags" \in DOMAIN outcome.value[i].metadata
                 /\ outcome.value[i].metadata.tags # <<>>

C5_Witness ==
    /\ SensoryAnswered
    /\ request.position = Some(<<"C", "E", "N", "T", "E", "R">>)
    /\ request.budget_max_krw = None
    /\ Len(ShoeCandidates) = 3
    /\ \E i \in DOMAIN ShoeCandidates :
           "tags" \notin DOMAIN ShoeCandidates[i].metadata
    /\ Len(outcome.value) = 1
    /\ outcome.value[1].page_content = "shoe2"

\* a is b with some elements left out: same elements, same relative order.
IsSubsequence(a, b) ==
    \E f \in [DOMAIN a -> DOMAIN b] :
        /\ \A i \in DOMAIN a : a[i] = b[f[i]]
        /\ \A i, j \in DOMAIN a : i < j => f[i] < f[j]

NoDuplicates(a) == \A i, j \in DOMAIN a : i # j => a[i] # a[j]

\* C6: what search_by_sensory_preferences returns is a subsequence of the
\* store's ranked answer: only candidates of the answer, none twice, in the
\* relative order of the answer.
C6_ResultIsSubsequenceOfAnswer ==
    SensoryAnswered
    => /\ outcome.kind = "return"
       /\ IsSubsequence(outcome.value, ShoeCandidates)
       /\ NoDuplicates(outcome.value)

C6_Witness ==
    /\ SensoryAnswered
    /\ Len(ShoeCandidates) = 3
    /\ Len(outcome.value) = 2
    /\ outcome.value[1] = ShoeCandidates[1]
    /\ outcome.value[2] = ShoeCandidates[3]

\* C7: cross_analysis_search returns at most n_shoes shoes and at most 3
\* players: it asks the store for no more than 3 players and returns the
\* players the store answered.
C7_CrossAnalysisLengths ==
    (Done("cross_analysis_search") /\ outcome.kind = "return")
    => /\ Len(outcome.value.shoes) <= request.n_shoes
       /\ Len(outcome.value.players) <= 3
       /\ \A i \in DOMAIN storeLog :
              storeLog[i].fn = "query_players"
              => /\ storeLog[i].n_results <= 3
                 /\ Len(outcome.value.players) <= storeLog[i].n_results

C7_Witness ==
    /\ Done("cross_analysis_search")
    /\ outcome.kind = "return"
    /\ request.n_shoes = MaxShoes
    /\ Len(storeAnswers) = 2
    /\ Len(storeAnswers[1].documents) > MaxShoes
    /\ Len(outcome.value.shoes) = MaxShoes
    /\ Len(outcome.value.players) = 2

\* The shoe's "brand model" string contains, in any letter case, one of the
\* non-blank names of the list (the name without surrounding whitespace).
IsSignatureShoe(shoe, names) ==
    \E i \in DOMAIN names :
        /\ ~ IsBlank(names[i])
        /\ contains(lower(shoe.metadata.brand \o <<" ">> \o shoe.metadata.model_name),
                    lower(strip(names[i])))

Occurrences(x, seq) == Cardinality({i \in DOMAIN seq : seq[i] = x})

\* out is a stable partition of input: the signature shoes first.
IsStablePartition(out, input, names) ==
    LET Sig(shoe) == IsSignatureShoe(shoe, names)
        Other(shoe) == ~ IsSignatureShoe(shoe, names)
    IN  /\ Len(out) = Len(input)
        /\ \A i \in DOMAIN input :
               Occurrences(input[i], out) = Occurrences(input[i], input)
        /\ \A i, j \in DOMAIN out : (i < j /\ Sig(out[j])) => Sig(out[i])
        /\ SelectSeq(out, Sig) = SelectSeq(input, Sig)
        /\ SelectSeq(out, Other) = SelectSeq(input, Other)

\* C8: _boost_signature_shoes returns a permutation of its input in which
\* the shoes matching a non-blank signature name come first and both groups
\* keep the input order; an empty or all-blank list leaves the input as is.
C8_BoostIsStablePartition ==
    Done("_boost_signature_shoes")
    => /\ outcome.kind = "return"
       /\ IsStablePartition(outcome.value, request.shoes,
                            request.signature_models)
       /\ (\A i \in DOMAIN request.signature_models :
               IsBlank(request.signature_models[i]))
          => outcome.value = request.shoes

C8_Witness ==
    /\ Done("_boost_signature_shoes")
    /\ request.signature_models = << <<" ", "C", " ">>, <<>> >>
    /\ Len(request.shoes) = 3
    /\ outcome.value = <<request.shoes[2], request.shoes[3], request.shoes[1]>>

\* C9: boosting the boosted sequence again, with the same signature list,
\* changes nothing.
C9_BoostIsIdempotent ==
    Done("_boost_signature_shoes")
    => _boost_signature_shoes(outcome.value, request.signature_models)
         = outcome.value

C9_Witness ==
    /\ Done("_boost_signature_shoes")
    /\ request.signature_models = << <<"c">> >>
    /\ Len(request.shoes) = 3
    /\ outcome.value = <<request.shoes[1], request.shoes[3], request.shoes[2]>>

\* The filtered pool of a cross analysis: the candidates of the shoe query
\* that the budget and position filters keep (none without a shoe query).
FilteredPool ==
    IF storeLog # <<>> /\ storeLog[1].fn = "query_shoes"
       /\ storeAnswers[1].kind = "ok"
    THEN SelectSeq(storeAnswers[1].documents, KeptByPriceAndPosition)
    ELSE <<>>

Min(a, b) == IF a < b THEN a ELSE b

\* C10: when the player search of cross_analysis_search returns a player,
\* the shoes are boosted with the first player's signature list before they
\* are truncated: no other shoe precedes a signature shoe, of the k signature
\* shoes of the filtered pool min(k, n_shoes) are returned, and every
\* returned shoe is of the fetched pool.
C10_BoostBeforeTruncation ==
    (/\ Done("cross_analysis_search")
     /\ outcome.kind = "return"
     /\ outcome.value.players # <<>>)
    => LET names == split(outcome.value.players[1].metadata.signature_shoes, ",")
           Sig(shoe) == IsSignatureShoe(shoe, names)
           shoes == outcome.value.shoes
       IN  /\ \A i, j \in DOMAIN shoes : (i < j /\ Sig(shoes[j])) => Sig(shoes[i])
           /\ Len(SelectSeq(shoes, Sig))
                = Min(Len(SelectSeq(FilteredPool, Sig)), request.n_shoes)
           /\ \A i \in DOMAIN shoes :
                  \E j \in DOMAIN FilteredPool : shoes[i] = FilteredPool[j]

C10_Witness ==
    /\ Done("cross_analysis_search")
    /\ outcome.kind = "return"
    /\ request.n_shoes = 1
    /\ Len(outcome.value.players) = 2
    /\ outcome.value.players[1].page_content = "player1"
    /\ Len(FilteredPool) = 3
    /\ FilteredPool[1].page_content = "shoe4"
    /\ FilteredPool[2].page_content = "shoe5"
    /\ outcome.value.shoes = <<FilteredPool[3]>>

(***************************************************************************)
(* Predicates handed to the store.                                         *)
(***************************************************************************)
\* The rule_type of the request is supplied and non-empty.
RuleTypeSupplied == request.rule_type # None /\ request.rule_type[1] # <<>>

CategorySupplied == request.category # None /\ request.category[1] # <<>>

\* The equality predicate key = value, as the store receives it.
EqualityPredicate(key, value) == <<[key |-> key, value |-> value]>>

ReturnedRules == IF outcome.kind = "return" THEN outcome.value ELSE <<>>

\* C11: search_by_situation hands the store the predicate
\* rule_type = upper(R) when a non-empty rule_type R is supplied and no
\* predicate otherwise, so every rule it returns has rule_type upper(R);
\* search_glossary_terms hands over a supplied category as it was given.
C11_PredicatesHandedToStore ==
    /\ (Done("search_by_situation") /\ storeLog # <<>>)
       => /\ Len(storeLog) = 1
          /\ storeLog[1].fn = "query_rules"
          /\ IF RuleTypeSupplied
             THEN /\ storeLog[1].where =
                       EqualityPredicate("rule_type", upper(request.rule_type[1]))
                  /\ \A i \in DOMAIN ReturnedRules :
                       ReturnedRules[i].metadata.rule_type
                         = upper(request.rule_type[1])
             ELSE storeLog[1].where = <<>>
    /\ (Done("search_glossary_terms") /\ storeLog # <<>>)
       => /\ Len(storeLog) = 1
          /\ storeLog[1].fn = "query_glossary"
          /\ storeLog[1].where =
               IF CategorySupplied
               THEN EqualityPredicate("category", request.category[1])
               ELSE <<>>

C11_Witness ==
    /\ Done("search_by_situation")
    /\ request.rule_type = Some(<<"f", "i", "b", "a">>)
    /\ Len(storeLog) = 1
    /\ storeLog[1].where = EqualityPredicate("rule_type", FIBA)
    /\ outcome.kind = "return"
    /\ Len(outcome.value) = 2
    /\ \A i \in 1..2 : outcome.value[i].metadata.rule_type = FIBA

(***************************************************************************)
(* hybrid_search.                                                          *)
(***************************************************************************)
AnswerFailed(answer) == answer.kind \in {"init_error", "error"}

SomeAnswerFailed == \E i \in DOMAIN storeAnswers : AnswerFailed(storeAnswers[i])

\* The situation text is missing, empty or whitespace only.
NoSituation == request.situation = <<>> \/ IsBlank(request.situation[1])

\* C12: whenever no store query fails, hybrid_search returns a mapping with
\* exactly the keys rules and glossary.  On a non-blank situation it asks
\* the store twice: for rules with the predicate of the given rule_type and
\* limit n_rules, then for glossary terms with no predicate and limit
\* n_glossary; rules holds the first answer and glossary the second, each
\* in the store's order and neither holding a record of the other.
C12_HybridReturnsBothKeys ==
    Done("hybrid_search") =>
      /\ (outcome.kind = "return") <=> ~ SomeAnswerFailed
      /\ outcome.kind = "return" =>
           /\ DOMAIN outcome.value = {"rules", "glossary"}
           /\ IF storeLog = <<>>
              THEN /\ NoSituation
                   /\ outcome.value.rules = <<>>
                   /\ outcome.value.glossary = <<>>
              ELSE /\ ~ NoSituation
                   /\ Len(storeLog) = 2
                   /\ storeLog[1] =
                        [fn |-> "query_rules", n_results |-> request.n_rules,
                         where |-> IF RuleTypeSupplied
                                   THEN EqualityPredicate(
                                            "rule_type",
                                            upper(request.rule_type[1]))
                                   ELSE <<>>]
                   /\ storeLog[2] =
                        [fn |-> "query_glossary",
                         n_results |-> request.n_glossary, where |-> <<>>]
                   /\ outcome.value.rules = storeAnswers[1].documents
                   /\ outcome.value.glossary = storeAnswers[2].documents
                   /\ \A i \in DOMAIN outcome.value.rules :
                        outcome.value.rules[i].metadata.doc_type = "rule"
                   /\ \A i \in DOMAIN outcome.value.glossary :
                        outcome.value.glossary[i].metadata.doc_type = "glossary"

C12_Witness ==
    /\ Done("hybrid_search")
    /\ request.situation = Some(<<" ", "c">>)
    /\ request.rule_type = Some(NBA)
    /\ request.n_rules = 1
    /\ request.n_glossary = 2
    /\ outcome.kind = "return"
    /\ Len(outcome.value.rules) = 1
    /\ Len(outcome.value.glossary) = 2

(***************************************************************************)
(* Failure of one sub-query of a combined search.                          *)
(***************************************************************************)
CombinedSearches == {"hybrid_search", "cross_analysis_search"}

RetrievalFailures ==
    {"Failed to retrieve shoes from database",
     "Failed to retrieve player archetypes from database",
     "Failed to retrieve rules from database",
     "Failed to retrieve glossary terms from database"}

\* C13: when a store query of hybrid_search (rules, glossary) or of
\* cross_analysis_search (shoes, players) fails, the call raises a retrieval
\* failure: it returns nothing, so no candidates of the domain that did
\* answer reach the caller.  The failed query is the last one issued.
C13_SubQueryFailureRaises ==
    (pc = "done" /\ request.op \in CombinedSearches /\ SomeAnswerFailed)
    => /\ outcome.kind = "raise"
       /\ outcome.value \in RetrievalFailures
       /\ AnswerFailed(storeAnswers[Len(storeAnswers)])

\* The second sub-query fails after the first one answered with records.
C13_Witness ==
    /\ pc = "done"
    /\ request.op \in CombinedSearches
    /\ Len(storeAnswers) = 2
    /\ storeAnswers[1].kind = "ok"
    /\ storeAnswers[1].documents # <<>>
    /\ storeAnswers[2].kind = "error"
    /\ outcome.kind = "raise"

(***************************************************************************)
(* The request paths.                                                      *)
(***************************************************************************)
RequestPaths == {"recommend_gear", "judge_situation", "create_skill_routine"}

\* C14: on every request path, when a store query of the retrieval step
\* fails the request ends with an error response and the synthesis step
\* never runs.
C14_StoreFailureEndsRequest ==
    (pc = "done" /\ request.op \in RequestPaths /\ SomeAnswerFailed)
    => /\ outcome.kind = "response"
       /\ outcome.value >= 500
       /\ synthesis = <<>>

\* The body of a gear request has an empty sensory_preferences list; the
\* body of a judgment request has an empty or no situation_description.
EmptyRequiredField ==
    \/ /\ request.op = "recommend_gear"
       /\ request.body.sensory_preferences = <<<<>>>>
    \/ /\ request.op = "judge_situation"
       /\ request.body.situation_description \in {<<>>, <<<<>>>>}

\* C20: a gear request with an empty sensory_preferences list and a
\* judgment request with an empty or missing situation_description are
\* answered 422 before the agent graph runs: no store call is issued and
\* the synthesis step does not run.
C20_EmptyRequiredFieldIsRejected ==
    (pc = "done" /\ request.op \in RequestPaths /\ EmptyRequiredField)
    => /\ outcome = [kind |-> "response", value |-> 422]
       /\ storeLog = <<>>
       /\ synthesis = <<>>

C20_Witness ==
    /\ Done("recommend_gear")
    /\ request.body.sensory_preferences = <<<<>>>>
    /\ request.body.budget_max_krw = <<1>>
    /\ outcome = [kind |-> "response", value |-> 422]
    /\ storeLog = <<>>

(***************************************************************************)
(* Player search on a name the collection does not hold.                   *)
(***************************************************************************)
StoredPlayerNames ==
    {PlayerCatalog[i].metadata.name : i \in DOMAIN PlayerCatalog}

\* The player name of the request is not blank and no stored player has it.
UnknownPlayer ==
    /\ request.player_name # <<>>
    /\ ~ IsBlank(request.player_name[1])
    /\ \A name \in StoredPlayerNames :
         ~ contains(lower(request.player_name[1]), lower(name))

\* C18: search_by_player_archetype on a name that matches no stored player
\* returns the empty sequence and raises nothing (the store answering the
\* query without an error).
C18_UnknownPlayerGivesEmpty ==
    (Done("search_by_player_archetype") /\ UnknownPlayer /\ ~ SomeAnswerFailed)
    => outcome = [kind |-> "return", value |-> <<>>]

(***************************************************************************)
(* The partition of a combined context.                                    *)
(***************************************************************************)
DocTypes == {"shoe", "player", "rule", "glossary"}

\* The records of a context with the given doc_type, in the context's order.
OfDocType(context, t) ==
    SelectSeq(context,
              LAMBDA d : "doc_type" \in DOMAIN d.metadata /\ d.metadata.doc_type = t)

BodyStatements ==
    {"create_client", "create_collection", "create_shoes", "create_players",
     "publish"}

InBody == {t \in DOMAIN threads : threads[t].pc \in BodyStatements}

\* C15: however the threads that call the manager interleave, the
\* initialization body runs to its end at most once, at most one thread is
\* inside it at any time, and that thread holds the lock; once it ran to its
\* end no thread is inside it again.
C15_InitializationBodyRunsOnce ==
    /\ completed <= 1
    /\ Cardinality(InBody) <= 1
    /\ \A t \in InBody : init_lock = <<t>>
    /\ (completed = 1 /\ initialized) => InBody = {}

\* The body ran to its end while another thread, which had found the flag
\* unset without the lock, is about to make its check with the lock.
C15_Witness ==
    /\ completed = 1
    /\ initialized
    /\ \E t \in DOMAIN threads : threads[t].pc = "second_check"
    /\ \E t \in DOMAIN threads : threads[t].pc \in {"operate", "done"}

HandlesSet ==
    /\ client # <<>>
    /\ collection # <<>>
    /\ shoes_collection # <<>>
    /\ players_collection # <<>>

\* A thread that runs a query_* method takes a step.
SearchStep ==
    \E t \in DOMAIN threads :
        /\ threads[t].method \in QueryMethods
        /\ threads'[t] # threads[t]

\* The flag implies the handles, and no step reassigns a handle once the
\* flag is set.
FlagPublishedLast ==
    /\ [](initialized => HandlesSet)
    /\ [][initialized => handles' = handles]_vars

\* C16 as stated: the flag implies that the client and all collection
\* handles are set, no step reassigns a handle once the flag is set, and
\* no step of a search writes a collection's contents or a handle.
C16_SearchWritesNoSharedState ==
    /\ FlagPublishedLast
    /\ [][SearchStep => (stored' = stored /\ handles' = handles)]_vars

\* C16 as amended: the flag implies that the client and all collection
\* handles are set, no step reassigns a handle once the flag is set, and a
\* step of a search never writes a collection's contents and writes a
\* handle only as a statement of the initialization body, under the lock
\* and before the flag is set.
C16_SearchWritesHandlesOnlyInBody ==
    /\ FlagPublishedLast
    /\ [][SearchStep =>
            /\ stored' = stored
            /\ handles' # handles =>
                 /\ ~ initialized
                 /\ ~ initialized'
                 /\ \E t \in InBody :
                      /\ init_lock = <<t>>
                      /\ threads'[t] # threads[t]]_vars

\* Every thread ran a search; one of them initialised the manager, and the
\* searches returned.
C16_Witness ==
    /\ initialized
    /\ HandlesSet
    /\ completed = 1
    /\ \A t \in DOMAIN threads :
         /\ threads[t].method \in QueryMethods
         /\ threads[t].pc = "done"
         /\ threads[t].result = "returned"
    /\ threads # <<>>

(***************************************************************************)
(* Batch inserts.                                                          *)
(***************************************************************************)
\* The four lists of a collection have the same length.
CountsEqual(coll) ==
    /\ Len(coll.ids) = Len(coll.embeddings)
    /\ Len(coll.ids) = Len(coll.documents)
    /\ Len(coll.ids) = Len(coll.metadatas)

\* Thread t ends an add_* method in this step.
AddEnds(t) ==
    /\ threads[t].method \in {"add_drills", "add_shoes", "add_players"}
    /\ threads[t].pc # "done"
    /\ threads'[t].pc = "done"

\* The collection an add_* method writes.
AddTarget(method) ==
    CASE method = "add_drills" -> "drills"
      [] method = "add_shoes" -> "shoes"
      [] method = "add_players" -> "players"

\* What the add_* method that thread t ends did to the collections.
AddContract(t) ==
    LET target == AddTarget(threads[t].method)
        before == stored[target]
        now == stored'[target]
        given == threads'[t].batch
        n == Len(given[1].records)
    IN  /\ \A c \in DOMAIN stored : c # target => stored'[c] = stored[c]
        /\ threads'[t].result = "raised" => now = before
        /\ given # <<>> =>
             /\ Len(given[1].records) # Len(given[1].embeddings)
                  => (threads'[t].result = "raised" /\ now = before)
             /\ given[1].records = <<>> => now = before
             /\ threads'[t].result = "returned" =>
                  /\ Len(given[1].embeddings) = n
                  /\ Len(now.ids) = Len(before.ids) + n
                  /\ Len(now.embeddings) = Len(before.embeddings) + n
                  /\ Len(now.documents) = Len(before.documents) + n
                  /\ Len(now.metadatas) = Len(before.metadatas) + n
                  /\ \A i \in 1..n :
                       /\ now.ids[Len(before.ids) + i] = given[1].records[i].id
                       /\ now.embeddings[Len(before.embeddings) + i]
                            = given[1].embeddings[i]

\* C17: an add_* method called with a different number of records and
\* embeddings raises and leaves the collection unchanged, a successful add
\* appends one id, one vector, one text and one metadata record per input
\* record, an empty batch changes nothing, and so the four counts of every
\* collection are equal in every reachable state.
C17_AddKeepsCountsEqual ==
    /\ [](\A c \in DOMAIN stored : CountsEqual(stored[c]))
    /\ [][\A t \in DOMAIN threads : AddEnds(t) => AddContract(t)]_vars

\* One add was refused for its lengths, another one stored two records.
C17_Witness ==
    /\ \E t \in DOMAIN threads :
         /\ threads[t].pc = "done"
         /\ threads[t].method = "add_shoes"
         /\ threads[t].batch # <<>>
         /\ Len(threads[t].batch[1].records) # Len(threads[t].batch[1].embeddings)
         /\ threads[t].result = "raised"
    /\ \E t \in DOMAIN threads :
         /\ threads[t].pc = "done"
         /\ threads[t].method = "add_shoes"
         /\ threads[t].result = "returned"
         /\ threads[t].batch # <<>>
         /\ Len(threads[t].batch[1].records) = 2
    /\ Len(stored["shoes"].ids) = 2
    /\ Len(stored["shoes"].metadatas) = 2

\* The shoe query of a cross_analysis_search that reached the store.
ShoePoolQuery(log) == log # <<>> /\ log[1].fn = "query_shoes"

\* C21 as stated: cross_analysis_search asks the store for three times
\* n_shoes shoes, whatever n_shoes is.
C21_PoolIsThreeTimesShoes ==
    (Done("cross_analysis_search") /\ ShoePoolQuery(storeLog))
        => storeLog[1].n_results = 3 * request.n_shoes

\* C21: cross_analysis_search asks the store for a pool of 15 shoes
\* whatever n_shoes is, which is three times n_shoes only for the default
\* n_shoes of 5.
C21_PoolIsFixed ==
    (Done("cross_analysis_search") /\ ShoePoolQuery(storeLog))
        => storeLog[1].n_results = ShoePoolSize

\* A cross search for two shoes queried the store for its shoe pool.
C21_Witness ==
    /\ Done("cross_analysis_search")
    /\ ShoePoolQuery(storeLog)
    /\ request.n_shoes = MaxShoes
    /\ outcome.kind = "return"

\* The searches of the retrieval core that ask one collection.
SingleSearches ==
    {"search_by_sensory_preferences", "search_by_player_archetype",
     "search_by_situation", "search_glossary_terms"}

\* The positions of the store calls to fn in a log.
CallsTo(log, fn) == {i \in DOMAIN log : log[i].fn = fn}

\* No store call follows one that raised.
FailureIsLast(answers) ==
    \A i \in DOMAIN answers : Failed(answers[i]) => i = Len(answers)

\* The players a cross search has to return: none without a player query,
\* else the documents of the player query's answer in the store's order.
PlayersOfSearch(log, answers) ==
    IF CallsTo(log, "query_players") = {} THEN <<>>
    ELSE LET answer == answers[CHOOSE i \in CallsTo(log, "query_players") : TRUE]
         IN  [i \in DOMAIN answer.documents |->
                Document(answer.documents[i].page_content,
                         answer.documents[i].metadata)]

\* C22: the retrieval core never retries. A search_* call asks the store at
\* most once, hybrid_search asks at most once for rules and once for the
\* glossary, cross_analysis_search asks at most once for shoes and asks for
\* players (limit 3) at most once and only with a non-empty
\* player_archetype; no query follows one that raised; and the players
\* cross_analysis_search returns are those of the player search, unchanged.
C22_NoRetry ==
    pc = "done" =>
      /\ request.op \in SingleSearches => Len(storeLog) <= 1
      /\ request.op = "hybrid_search" =>
           /\ Cardinality(CallsTo(storeLog, "query_rules")) <= 1
           /\ Cardinality(CallsTo(storeLog, "query_glossary")) <= 1
           /\ Len(storeLog) <= 2
      /\ request.op = "cross_analysis_search" =>
           /\ Cardinality(CallsTo(storeLog, "query_shoes")) <= 1
           /\ Cardinality(CallsTo(storeLog, "query_players")) <= 1
           /\ Len(storeLog) <= 2
           /\ \A i \in CallsTo(storeLog, "query_players") :
                /\ storeLog[i].n_results = PlayerLimit
                /\ truthy_str(request.player_archetype)
           /\ outcome.kind = "return" =>
                outcome.value.players = PlayersOfSearch(storeLog, storeAnswers)
      /\ request.op \in SingleSearches
                        \cup {"hybrid_search", "cross_analysis_search"} =>
           /\ Len(storeAnswers) = Len(storeLog)
           /\ FailureIsLast(storeAnswers)

\* A cross search asked for shoes and then for players, and returned the
\* two players the store answered with; its player query was not repeated.
C22_Witness ==
    /\ Done("cross_analysis_search")
    /\ Len(storeLog) = 2
    /\ storeLog[2].fn = "query_players"
    /\ outcome.kind = "return"
    /\ Len(outcome.value.players) = 2

\* The lifespan has ended: at its yield or with an exception.
StartupEnded == request.op = "lifespan" /\ pc = "done"

\* The records of the static source of a collection, none for a source
\* file that does not exist.
SourceRecords(name) ==
    LET source == request.sources[name]
    IN  IF name = "rules"
        THEN (IF source.fiba = <<>> THEN <<>> ELSE source.fiba[1])
             \o (IF source.nba = <<>> THEN <<>> ELSE source.nba[1])
        ELSE IF source = <<>> THEN <<>> ELSE source[1]

\* Exceptions of the world around the startup code: a missing source file,
\* the embeddings API, the store.
OutsideFailures == {"FileNotFoundError", "APIError", "ValueError", "StoreError"}

\* C23: startup populates each of the five collections from its static
\* source exactly when it finds the collection empty and then completes
\* (unless a source file, the embeddings API or the store fails), and a
\* completed startup leaves nothing that another run would add.
C23_StartupPopulatesEmptyCollections ==
    StartupEnded =>
      /\ outcome.kind = "raise" => outcome.value \in OutsideFailures
      /\ outcome.kind = "return" =>
           \A c \in DOMAIN stored :
             /\ Len(request.before[c].ids) # 0 => stored[c] = request.before[c]
             /\ Len(request.before[c].ids) = 0 =>
                  /\ Len(stored[c].ids) = Len(SourceRecords(c))
                  /\ \A i \in DOMAIN stored[c].ids :
                       stored[c].ids[i] = SourceRecords(c)[i].id
             /\ Len(stored[c].ids) # 0 \/ SourceRecords(c) = <<>>

\* C24: no handle of the store manager is read before _ensure_initialized
\* has completed: every handle the lifespan has read was read with
\* _initialized true and was not None.
C24_HandlesReadAfterInitialization ==
    request.op = "lifespan" =>
      \A i \in DOMAIN storeLog :
        /\ storeLog[i].initialized
        /\ storeLog[i].handle # <<>>

\* The statements under `with self._init_lock:`.
WithBlock == {"second_check", "release"} \cup BodyStatements

\* Thread t, which holds the lock inside the initialization body, ends its
\* method in this step.
BodyFailed(t) ==
    /\ init_lock = <<t>>
    /\ threads[t].pc \in BodyStatements \ {"publish"}
    /\ threads'[t].pc = "done"

\* Thread t, which found the manager uninitialised, takes a step of
\* _ensure_initialized towards the body.
AttemptsAgain(t) ==
    \/ /\ threads[t].pc = "first_check"
       /\ threads'[t].pc = "acquire"
    \/ /\ threads[t].pc = "second_check"
       /\ threads'[t].pc = "create_client"
       /\ init_lock' = <<t>>

\* C25: when the initialization body fails part-way, the lock is freed,
\* _initialized stays false and the exception ends the caller's method; a
\* call that finds the flag false goes for the lock and the body again;
\* the lock is held only by a thread inside the with block, and as long as
\* a thread has not ended its method some thread can take a step, so no
\* thread waits for the lock for ever.
C25_FailedInitializationFreesLock ==
    /\ [][\A t \in DOMAIN threads :
            BodyFailed(t) => /\ init_lock' = <<>>
                             /\ ~ initialized'
                             /\ threads'[t].result = "raised"]_vars
    /\ [][\A t \in DOMAIN threads :
            (/\ threads[t].pc \in {"first_check", "second_check"}
             /\ ~ initialized
             /\ threads'[t] # threads[t]) => AttemptsAgain(t)]_vars
    /\ [](init_lock # <<>> => threads[init_lock[1]].pc \in WithBlock)
    /\ []((\E t \in DOMAIN threads : threads[t].pc # "done")
            => ENABLED ManagerNext)

\* The body failed in one thread, and another thread, which then took the
\* free lock and found the flag false, is at the first statement of the
\* body.
C25_Witness ==
    /\ ~ initialized
    /\ \E t \in DOMAIN threads :
         /\ threads[t].pc = "done"
         /\ threads[t].result = "raised"
    /\ \E u \in DOMAIN threads :
         /\ threads[u].pc = "create_client"
         /\ init_lock = <<u>>

\* The phrases the blocked patterns stand for, as lists of words that one
\* or more whitespace characters separate.
BlockedPhrases ==
    { <<w_ignore, w_previous, w_instructions>>,
      <<w_ignore, w_all, w_previous, w_instructions>>,
      <<w_forget, w_above>>,
      <<w_forget, w_all, w_above>>,
      <<w_you, w_are, w_now>>,
      <<w_disregard, w_prior>>,
      <<w_disregard, w_all, w_prior>> }

\* The text reads, from index i, the words with whitespace between them,
\* in any letter case.
RECURSIVE Reads(_, _, _)
Reads(text, i, words) ==
    LET word == Head(words)
        j == i + Len(word)
    IN  /\ j - 1 <= Len(text)
        /\ \A k \in DOMAIN word : lowerChar(text[i + k - 1]) = word[k]
        /\ \/ Len(words) = 1
           \/ \E n \in j + 1 .. Len(text) :
                /\ \A k \in j .. n - 1 : text[k] = " "
                /\ Reads(text, n, Tail(words))

\* Some substring of the text matches a blocked pattern.
HoldsBlockedPhrase(text) ==
    \E i \in DOMAIN text : \E words \in BlockedPhrases : Reads(text, i, words)

\* C26: for every input the output of _sanitize_situation is at most 1000
\* characters long and no substring of it matches a blocked pattern.
C26_SanitizedTextIsClean ==
    (Done("_sanitize_situation") /\ outcome.kind = "return") =>
      /\ Len(outcome.value) <= 1000
      /\ ~ HoldsBlockedPhrase(outcome.value)

\* The body passes WhistleRequest and parse_situation: its
\* situation_description is a str of at least one character.
ParseSucceeds(body) ==
    /\ body.situation_description # <<>>
    /\ Len(body.situation_description[1]) >= 1
    /\ (body.rule_type = <<>> \/ body.rule_type[1] \in {FIBA, NBA})

\* C27: whenever parse_situation succeeds the situation handed on is
\* neither empty nor whitespace only: retrieval asks the store for rules
\* (and, unless that query raises, for the glossary), and synthesis runs
\* only after both queries were made, never on the result of the
\* empty-input short-circuit.
C27_ParsedSituationReachesStore ==
    (Done("judge_situation") /\ ParseSucceeds(request.body)) =>
      /\ storeLog # <<>>
      /\ storeLog[1].fn = "query_rules"
      /\ synthesis # <<>> =>
           /\ Len(storeLog) = 2
           /\ storeLog[2].fn = "query_glossary"

\* The answer of the store to the call to fn in the log, None without
\* such a call.
AnswerTo(log, answers, fn) ==
    IF CallsTo(log, fn) = {} THEN <<>>
    ELSE <<answers[CHOOSE i \in CallsTo(log, fn) : TRUE]>>

\* The shoe documents in the prompt of the gear request's synthesis.
ShoesOfSynthesis ==
    select(synthesis[1].context,
           {d \in Range(synthesis[1].context) :
              Get(d.metadata, "doc_type", "None") = "shoe"})

\* The runs of cross_analysis_search for the body of the gear request, five
\* shoes asked for, in which the store answers as it answered the request.
CrossRunsOfGearRequest ==
    LET body == request.body
    IN  { c \in cross_analysis_search(body.sensory_preferences[1],
                                      body.player_archetype,
                                      body.budget_max_krw, body.position,
                                      5, FALSE) :
            /\ AnswerTo(c.log, c.answers, "query_shoes")
                 = AnswerTo(storeLog, storeAnswers, "query_shoes")
            /\ AnswerTo(c.log, c.answers, "query_players")
                 = AnswerTo(storeLog, storeAnswers, "query_players") }

\* C28: the shoe documents the gear pipeline hands to synthesis are exactly
\* the shoes that cross_analysis_search returns for the same inputs, the
\* same answers of the store and n_shoes = 5: filtered by budget and
\* position and boosted by the signature models (where no store query
\* raised).
C28_GearShoesAreCrossAnalysisShoes ==
    (Done("recommend_gear") /\ synthesis # <<>> /\ ~ SomeAnswerFailed) =>
      \E c \in CrossRunsOfGearRequest :
        /\ c.outcome.kind = "return"
        /\ c.outcome.value.shoes = ShoesOfSynthesis

\* C29: at each of the three endpoints an exception of the agent graph
\* that is not an HTTPException is answered with status 500 and a detail
\* in which no part is the exception's text, and an HTTPException is
\* answered with its own status and detail.
C29_ErrorDetailIsGeneric ==
    Done("endpoint_except") =>
      /\ outcome.kind = "response"
      /\ IF request.exception.type = "HTTPException"
         THEN /\ outcome.value = request.exception.status_code
              /\ outcome.detail = request.exception.text
         ELSE /\ outcome.value = 500
              /\ \A i \in DOMAIN outcome.detail :
                   outcome.detail[i] \notin ExceptionTexts

\* The agent node of an intent.
NodeOfIntent(intent) ==
    CASE intent = i_skill_lab -> "skill_lab"
      [] intent = i_shoe_recommendation -> "shoe_recommendation"
      [] intent = i_rule_query -> "rule_query"

\* The intent the router's LLM call names: the content of its message,
\* trimmed and lower-cased, if that is one of the three intents.
NamesIntent(reply, intent) ==
    /\ reply.kind = "message"
    /\ reply.content # <<>>
    /\ lower(strip(reply.content[1])) = intent

\* The error JSON of the two agent nodes.
GenericErrors ==
    {[error |-> e,
      message |-> "An internal error occurred while processing your request. Please try again later."] :
       e \in {"Failed to generate training routine",
              "Failed to generate shoe recommendations"}}

\* C30: in the unified workflow, for every non-empty message list and
\* every outcome of the intent classification call, the routing decision is
\* one of skill_lab, shoe_recommendation and rule_query (the intent the
\* call names, else skill_lab), exactly the agent node of that decision
\* runs after the router, the run goes on until END and ends with
\* final_response set, and an exception inside the skill_lab or
\* shoe_recommendation agent gives a generic error JSON as final_response
\* instead of ending the run.
C30_WorkflowRunsOneAgentToEnd ==
    (request.op = "unified_workflow" /\ request.messages # <<>>) =>
      /\ pc # "done" => ENABLED Next
      /\ pc # "call" =>
           /\ outcome.kind = "state"
           /\ outcome.routing_decision \in valid_intents
           /\ \A intent \in valid_intents :
                NamesIntent(outcome.reply, intent)
                  => outcome.routing_decision = intent
           /\ (\A intent \in valid_intents : ~ NamesIntent(outcome.reply, intent))
                  => outcome.routing_decision = i_skill_lab
           /\ pc \in {"done", NodeOfIntent(outcome.routing_decision)}
      /\ pc \notin {"call", "done"} =>
           /\ outcome.nodes = <<"router">>
           /\ outcome.final_response = <<>>
      /\ pc = "done" =>
           /\ outcome.nodes = <<"router", NodeOfIntent(outcome.routing_decision)>>
           /\ outcome.final_response # <<>>
           /\ (outcome.agent # <<>> /\ outcome.agent[1].kind = "raise")
                => outcome.final_response[1] \in GenericErrors
           /\ (outcome.agent # <<>> /\ outcome.agent[1].kind = "return")
                => outcome.final_response[1] = [json |-> outcome.agent[1].value]

\* The router's LLM call named no intent, the skill_lab node ran, its
\* agent raised, and the run ended with the error JSON as final_response.
C30_Witness ==
    /\ request.op = "unified_workflow"
    /\ pc = "done"
    /\ outcome.kind = "state"
    /\ outcome.reply.kind = "message"
    /\ outcome.reply.content = <<<<"c">>>>
    /\ outcome.nodes = <<"router", "skill_lab">>
    /\ outcome.agent # <<>>
    /\ outcome.agent[1].kind = "raise"
    /\ outcome.final_response # <<>>
    /\ "error" \in DOMAIN outcome.final_response[1]

====
